---- MODULE Spec2Model ----
(***************************************************************************)
(* Commit ingestion (app.py, github_monitor.py) and file reconstruction    *)
(* over the stored parent chain (file_constructor.py).                     *)
(*                                                                         *)
(* Text is modelled character by character.  A line of text is a record    *)
(* [text, pad]: the characters of `text` followed by `pad` copies of the   *)
(* filler character "x" (a run-length form that lets a patch be 800 or 801 *)
(* characters long).  A multi-line string is the non-empty sequence of its *)
(* lines, i.e. what str.split('\n') returns; the empty string is the       *)
(* sequence holding one empty line.  Python's None is the empty sequence.  *)
(* File names and messages are plain sequences of characters.              *)
(***************************************************************************)
EXTENDS Integers, Sequences, FiniteSets, TLC

VARIABLES
    \* commit store: one directory of <sha>.json files, sha -> CommitRecord
    store,
    \* repositories.json: set of registered "owner/repo" keys
    repos,
    \* remote host: sha -> commit detail as the GitHub API returns it
    upstream,
    \* wall clock read by datetime.now()
    now,
    \* github_webhook: position, commits of the event still to process
    hpc, queue,
    \* what analyze_commit did for the commit processed last
    last,
    \* status of the webhook response being sent (0 while none is)
    resp,
    \* per stored commit: the payload entry and the remote answers its record was built from
    seen,
    \* github_webhook: the delivery received last, and what became of each of
    \* its commits the loop has been through, in the order it went through them
    delivery, done,
    \* get_file_at_commit: position, call stack, commit of the running call,
    \* arguments of the outermost call, value being returned
    wpc, wstack, wcur, wstart, wfile, wret,
    \* get_file_at_commit: commits entered so far (in call order), number of
    \* records loaded, value returned by the call made on each commit
    visited, loads, returned,
    \* _classify_work: arguments and result
    cin, cout,
    \* the classification step of analyze_commit (lines 131-139): the change
    \* list, stats and message it is run on, and the result of each run made
    kin, kout,
    \* get_file_comparison: position, and the result as far as it is built
    cpc, cres,
    \* evolution analyzer: the call made (operation and arguments), and its result
    ein, eout,
    \* the data directory as threads and processes share it: directory name ->
    \* (commit id -> the <sha>.json file, as far as it is written)
    disk,
    \* save_commit_history in progress (its position inside Path.write_text), and
    \* every record handed to it so far with the repository it was handed for
    writer, saves,
    \* a load of records in progress: the operation, its arguments, the files
    \* still to read, the records read so far
    reader,
    \* submit_repo requests: request -> position, repository key, the registry
    \* as the request loaded it
    submits

vars == <<store, repos, upstream, now, hpc, queue, last, resp, seen, delivery, done,
          wpc, wstack, wcur, wstart, wfile, wret, visited, loads, returned,
          cin, cout, kin, kout, cpc, cres, ein, eout,
          disk, writer, saves, reader, submits>>

ingestVars == <<store, repos, upstream, now, hpc, queue, last, resp, seen, delivery, done>>
walkVars == <<wpc, wstack, wcur, wstart, wfile, wret, visited, loads, returned>>
classVars == <<cin, cout, kin, kout>>
cmpVars == <<cpc, cres>>
evoVars == <<ein, eout>>
fileVars == <<disk, writer, saves, reader, submits>>

(***************************************************************************)
(* Bounds of the model.                                                    *)
(***************************************************************************)
\* depth of nested get_file_at_commit calls the interpreter's stack allows
StackLimit == 5
\* number of records written in one run (each write reads a later clock value)
MaxSaves == 2
\* number of commits one push event lists
MaxPush == 2

(***************************************************************************)
(* Text.                                                                   *)
(***************************************************************************)
None == <<>>
NoSha == "NONE"

Line(text, pad) == [text |-> text, pad |-> pad]
EmptyStr == << Line(<<>>, 0) >>

\* Python truthiness of an Optional[str] content value
Truthy(s) == s # None /\ s # EmptyStr
\* Python truthiness of an Optional[str] commit id
TruthySha(s) == s # NoSha

LineLen(l) == Len(l.text) + l.pad
CharAt(l, i) == IF i <= Len(l.text) THEN l.text[i] ELSE "x"
\* str.startswith on one line
StartsWith(l, p) == Len(p) <= LineLen(l) /\ \A i \in 1..Len(p) : CharAt(l, i) = p[i]
\* line[1:] of a non-empty line
DropFirst(l) == IF Len(l.text) > 0 THEN Line(Tail(l.text), l.pad) ELSE Line(<<>>, l.pad - 1)

RECURSIVE SumLen(_)
SumLen(s) == IF s = <<>> THEN 0 ELSE LineLen(Head(s)) + SumLen(Tail(s))
\* len(s) of a string: the lines and the newlines between them
StrLen(s) == SumLen(s) + Len(s) - 1

\* '\n'.join(lines)
Join(lines) == IF lines = <<>> THEN EmptyStr ELSE lines

\* str.lower() on one character
Lower(ch) ==
    CASE ch = "A" -> "a" [] ch = "B" -> "b" [] ch = "C" -> "c" [] ch = "D" -> "d"
      [] ch = "E" -> "e" [] ch = "F" -> "f" [] ch = "G" -> "g" [] ch = "H" -> "h"
      [] ch = "I" -> "i" [] ch = "J" -> "j" [] ch = "K" -> "k" [] ch = "L" -> "l"
      [] ch = "M" -> "m" [] ch = "N" -> "n" [] ch = "O" -> "o" [] ch = "P" -> "p"
      [] ch = "Q" -> "q" [] ch = "R" -> "r" [] ch = "S" -> "s" [] ch = "T" -> "t"
      [] ch = "U" -> "u" [] ch = "V" -> "v" [] ch = "W" -> "w" [] ch = "X" -> "x"
      [] ch = "Y" -> "y" [] ch = "Z" -> "z" [] OTHER -> ch
LowerSeq(w) == [i \in 1..Len(w) |-> Lower(w[i])]

\* `needle in hay` on character sequences
Contains(hay, needle) ==
    \E i \in 1..(Len(hay) - Len(needle) + 1) :
        SubSeq(hay, i, i + Len(needle) - 1) = needle
\* hay.endswith(suffix)
EndsWith(hay, suffix) ==
    /\ Len(suffix) <= Len(hay)
    /\ SubSeq(hay, Len(hay) - Len(suffix) + 1, Len(hay)) = suffix
\* hay.split(sep)[0] for a one-character separator
RECURSIVE SplitFirst(_, _)
SplitFirst(hay, sep) ==
    IF hay = <<>> \/ Head(hay) = sep THEN <<>>
    ELSE <<Head(hay)>> \o SplitFirst(Tail(hay), sep)

(***************************************************************************)
(* GitHubMonitor._analyze_files and GitHubMonitor._classify_work.          *)
(***************************************************************************)
dependency_files ==
    { <<"p", "a", "c", "k", "a", "g", "e", ".", "j", "s", "o", "n">>,
      <<"r", "e", "q", "u", "i", "r", "e", "m", "e", "n", "t", "s", ".", "t", "x", "t">>,
      <<"p", "o", "m", ".", "x", "m", "l">>,
      <<"b", "u", "i", "l", "d", ".", "g", "r", "a", "d", "l", "e">>,
      <<"G", "e", "m", "f", "i", "l", "e">>,
      <<"C", "a", "r", "g", "o", ".", "t", "o", "m", "l">>,
      <<"g", "o", ".", "m", "o", "d">>,
      <<"c", "o", "m", "p", "o", "s", "e", "r", ".", "j", "s", "o", "n">>,
      <<"p", "a", "c", "k", "a", "g", "e", "-", "l", "o", "c", "k", ".", "j", "s", "o", "n">>,
      <<"y", "a", "r", "n", ".", "l", "o", "c", "k">> }

config_files ==
    { <<".", "e", "n", "v">>,
      <<"c", "o", "n", "f", "i", "g", ".", "j", "s", "o", "n">>,
      <<"c", "o", "n", "f", "i", "g", ".", "y", "a", "m", "l">>,
      <<"s", "e", "t", "t", "i", "n", "g", "s", ".", "p", "y">>,
      <<"w", "e", "b", "p", "a", "c", "k", ".", "c", "o", "n", "f", "i", "g", ".", "j", "s">>,
      <<"t", "s", "c", "o", "n", "f", "i", "g", ".", "j", "s", "o", "n">>,
      <<".", "g", "i", "t", "i", "g", "n", "o", "r", "e">> }

\* one pass of the loop body's flag tests, for the file named `filename`
IsDependencyFile(filename) ==
    \E low \in {LowerSeq(filename)} : \E dep \in dependency_files : Contains(low, dep)
IsConfigFile(filename) ==
    \E low \in {LowerSeq(filename)} : \E cfg \in config_files : Contains(low, cfg)
IsDocFile(filename) ==
    \E low \in {LowerSeq(filename)} :
        \/ Contains(low, <<"r", "e", "a", "d", "m", "e">>)
        \/ EndsWith(filename, <<".", "m", "d">>)
IsTestFile(filename) ==
    \E low \in {LowerSeq(filename)} :
        \/ Contains(low, <<"t", "e", "s", "t">>)
        \/ Contains(low, <<"s", "p", "e", "c">>)

\* _analyze_files with the documentation flag taken from the last file looked at
_analyze_files_last_doc(files) ==
    LET idx == 1..Len(files) IN
    [ new_files     |-> Cardinality({i \in idx : files[i].status = "added"}),
      deleted_files |-> Cardinality({i \in idx : files[i].status = "removed"}),
      modified_files |-> Cardinality({i \in idx : files[i].status \notin {"added", "removed"}}),
      directories   |-> { SplitFirst(files[i].filename, "/") :
                            i \in {j \in idx : Contains(files[j].filename, <<"/">>)} },
      has_dependencies |-> \E i \in idx : IsDependencyFile(files[i].filename),
      has_config    |-> \E i \in idx : IsConfigFile(files[i].filename),
      has_docs      |-> files # <<>> /\ IsDocFile(files[Len(files)].filename),
      has_tests     |-> \E i \in idx : IsTestFile(files[i].filename),
      large_changes |-> Cardinality({i \in idx : files[i].changes > 100}) ]

_analyze_files(files) ==
    LET idx == 1..Len(files) IN
    [ new_files     |-> Cardinality({i \in idx : files[i].status = "added"}),
      deleted_files |-> Cardinality({i \in idx : files[i].status = "removed"}),
      modified_files |-> Cardinality({i \in idx : files[i].status \notin {"added", "removed"}}),
      directories   |-> { SplitFirst(files[i].filename, "/") :
                            i \in {j \in idx : Contains(files[j].filename, <<"/">>)} },
      has_dependencies |-> \E i \in idx : IsDependencyFile(files[i].filename),
      has_config    |-> \E i \in idx : IsConfigFile(files[i].filename),
      has_docs      |-> \E i \in idx : IsDocFile(files[i].filename),
      has_tests     |-> \E i \in idx : IsTestFile(files[i].filename),
      large_changes |-> Cardinality({i \in idx : files[i].changes > 100}) ]

\* any(k in message.lower() for k in keys)
MessageHas(message, keys) ==
    \E low \in {LowerSeq(message)} : \E k \in keys : Contains(low, k)
FixWords == { <<"f", "i", "x">>, <<"b", "u", "g">>, <<"p", "a", "t", "c", "h">> }
FeatWords == { <<"f", "e", "a", "t">>, <<"f", "e", "a", "t", "u", "r", "e">>, <<"a", "d", "d">> }

Event(type, text, args) == [type |-> type, description |-> [text |-> text, args |-> args]]

\* _classify_work with the documentation rule tried before the dependency rule
_classify_work_docs_first(analysis, files_changed, additions, deletions, message) ==
    IF analysis.has_docs /\ files_changed <= 2
        THEN Event("documentation", "Documentation update", <<>>)
    ELSE IF analysis.has_dependencies
        THEN Event("dependency_update", "Dependency update", <<files_changed>>)
    ELSE IF Cardinality(analysis.directories) > 1 /\ analysis.new_files > 3
        THEN Event("new_module", "New module added", <<analysis.new_files>>)
    ELSE IF analysis.has_config /\ files_changed <= 3
        THEN Event("config_change", "Configuration update", <<>>)
    ELSE IF analysis.has_tests
        THEN Event("testing", "Test files updated", <<files_changed>>)
    ELSE IF deletions > additions /\ deletions > 200
        THEN Event("refactor", "Code refactoring", <<deletions>>)
    ELSE IF additions > 300
        THEN Event("major_feature", "Major feature update", <<additions>>)
    ELSE IF analysis.new_files > 0
        THEN Event("files_added", "new files added", <<analysis.new_files>>)
    ELSE IF analysis.deleted_files > 0
        THEN Event("cleanup", "files removed", <<analysis.deleted_files>>)
    ELSE IF MessageHas(message, FixWords)
        THEN Event("bug_fix", "Bug fix", <<files_changed>>)
    ELSE IF MessageHas(message, FeatWords)
        THEN Event("feature", "Feature implementation", <<files_changed>>)
    ELSE IF files_changed <= 2 /\ additions < 50
        THEN Event("minor_update", "Minor update", <<files_changed>>)
    ELSE Event("major_update", "Major update", <<files_changed>>)

_classify_work(analysis, files_changed, additions, deletions, message) ==
    IF analysis.has_dependencies
        THEN Event("dependency_update", "Dependency update", <<files_changed>>)
    ELSE IF Cardinality(analysis.directories) > 1 /\ analysis.new_files > 3
        THEN Event("new_module", "New module added", <<analysis.new_files>>)
    ELSE IF analysis.has_config /\ files_changed <= 3
        THEN Event("config_change", "Configuration update", <<>>)
    ELSE IF analysis.has_docs /\ files_changed <= 2
        THEN Event("documentation", "Documentation update", <<>>)
    ELSE IF analysis.has_tests
        THEN Event("testing", "Test files updated", <<files_changed>>)
    ELSE IF deletions > additions /\ deletions > 200
        THEN Event("refactor", "Code refactoring", <<deletions>>)
    ELSE IF additions > 300
        THEN Event("major_feature", "Major feature update", <<additions>>)
    ELSE IF analysis.new_files > 0
        THEN Event("files_added", "new files added", <<analysis.new_files>>)
    ELSE IF analysis.deleted_files > 0
        THEN Event("cleanup", "files removed", <<analysis.deleted_files>>)
    ELSE IF MessageHas(message, FixWords)
        THEN Event("bug_fix", "Bug fix", <<files_changed>>)
    ELSE IF MessageHas(message, FeatWords)
        THEN Event("feature", "Feature implementation", <<files_changed>>)
    ELSE IF files_changed <= 2 /\ additions < 50
        THEN Event("minor_update", "Minor update", <<files_changed>>)
    ELSE Event("major_update", "Major update", <<files_changed>>)


(***************************************************************************)
(* IncrementalFileReconstructor (file_constructor.py).                     *)
(***************************************************************************)
\* dict.get with the default the code gives
GetAfterCode(fd) == IF "after_code" \in DOMAIN fd THEN fd.after_code ELSE None
GetBeforeCode(fd) == IF "before_code" \in DOMAIN fd THEN fd.before_code ELSE None
GetPatch(fd) == IF "patch" \in DOMAIN fd THEN fd.patch ELSE None
GetStorageType(fd) == IF "storage_type" \in DOMAIN fd THEN fd.storage_type ELSE "unknown"
GetBeforeReference(fd) == IF "before_reference" \in DOMAIN fd THEN fd.before_reference ELSE NoSha

\* load_commit finds <sha>.json
HasRecord(st, sha) == sha \in DOMAIN st

IsAddedLine(l) == StartsWith(l, <<"+">>) /\ ~StartsWith(l, <<"+", "+", "+">>)
_extract_content_from_patch(patch) ==
    LET kept == SelectSeq(patch, IsAddedLine)
    IN  Join([i \in 1..Len(kept) |-> DropFirst(kept[i])])

\* index of the first FileDiff of `files` named `filename`, 0 when none
FirstFileDiff(files, filename) ==
    IF \E i \in 1..Len(files) : files[i].filename = filename
    THEN CHOOSE i \in 1..Len(files) :
            /\ files[i].filename = filename
            /\ \A j \in 1..(i - 1) : files[j].filename # filename
    ELSE 0

\* what one call of get_file_at_commit does before it returns or recurses
Return(value) == [op |-> "return", value |-> value]
Recurse(site, target) == [op |-> "call", site |-> site, target |-> target]

\* lines 37-72 with the patch_only branch recursing into the commit itself
MatchedFileDiff_same_commit(commit, fd) ==
    IF Truthy(GetAfterCode(fd)) THEN Return(GetAfterCode(fd))
    ELSE IF GetStorageType(fd) = "incremental_update" /\ TruthySha(GetBeforeReference(fd))
        THEN Recurse("incremental_update", GetBeforeReference(fd))
    ELSE IF Truthy(GetPatch(fd)) /\ GetStorageType(fd) = "patch_new"
        THEN Return(_extract_content_from_patch(GetPatch(fd)))
    ELSE IF Truthy(GetPatch(fd)) /\ GetStorageType(fd) = "patch_only"
        THEN Recurse("patch_only", commit.commit_sha)
    ELSE Return(None)

\* lines 37-72: the record lists a FileDiff for the file
MatchedFileDiff(commit, fd) ==
    IF Truthy(GetAfterCode(fd)) THEN Return(GetAfterCode(fd))
    ELSE IF GetStorageType(fd) = "incremental_update" /\ TruthySha(GetBeforeReference(fd))
        THEN Recurse("incremental_update", GetBeforeReference(fd))
    ELSE IF Truthy(GetPatch(fd)) /\ GetStorageType(fd) = "patch_new"
        THEN Return(_extract_content_from_patch(GetPatch(fd)))
    ELSE IF Truthy(GetPatch(fd)) /\ GetStorageType(fd) = "patch_only"
                /\ TruthySha(commit.parent_sha)
        THEN Recurse("patch_only", commit.parent_sha)
    ELSE Return(None)

\* lines 74-79 returning absent without looking at the parent
UnchangedFile_no_parent(commit) == Return(None)

\* lines 74-79: the record lists no FileDiff for the file
UnchangedFile(commit) ==
    IF TruthySha(commit.parent_sha) THEN Recurse("unchanged", commit.parent_sha)
    ELSE Return(None)

\* lines 30-79 up to the first return or recursive call
CallBody(st, sha, filename) ==
    IF ~HasRecord(st, sha) THEN Return(None)
    ELSE LET commit == st[sha]
             i == FirstFileDiff(commit.files, filename)
         IN  IF i # 0 THEN MatchedFileDiff(commit, commit.files[i])
             ELSE UnchangedFile(commit)

\* what the caller returns once the recursive call made at `site` gave `value`
AfterCall(site, value) ==
    CASE site = "incremental_update" -> value
      [] site = "patch_only" -> IF Truthy(value) THEN value ELSE None
      [] site = "unchanged" -> value

Shas == {"c1", "c2", "c3"}

\* get_file_at_commit(owner, repo_name, sha, filename) is called
EnterGetFile(sha, filename) ==
    /\ wpc' = "call"
    /\ wcur' = sha
    /\ wstart' = sha
    /\ wfile' = filename
    /\ wstack' = <<>>
    /\ wret' = None
    /\ visited' = <<>>
    /\ loads' = 0
    /\ returned' = <<>>
GetFileStart(sha, filename) ==
    /\ wpc \in {"idle", "done", "raised"}
    /\ cpc \in {"idle", "done", "raised"}
    /\ EnterGetFile(sha, filename)
    /\ UNCHANGED <<ingestVars, classVars, cmpVars, evoVars, fileVars>>

\* one call runs to its return or to its recursive call; a call nested deeper
\* than the interpreter allows raises RecursionError out of all frames
GetFileCall ==
    /\ wpc = "call"
    /\ IF Len(wstack) + 1 > StackLimit
       THEN /\ wpc' = "raised"
            /\ wstack' = <<>>
            /\ UNCHANGED <<wcur, wret, visited, loads, returned>>
       ELSE LET step == CallBody(store, wcur, wfile) IN
            /\ visited' = Append(visited, wcur)
            /\ loads' = IF HasRecord(store, wcur) THEN loads + 1 ELSE loads
            /\ IF step.op = "return"
               THEN /\ wpc' = "return"
                    /\ wret' = step.value
                    /\ returned' = (wcur :> step.value) @@ returned
                    /\ UNCHANGED <<wstack, wcur>>
               ELSE /\ wpc' = "call"
                    /\ wstack' = Append(wstack, [sha |-> wcur, site |-> step.site])
                    /\ wcur' = step.target
                    /\ UNCHANGED <<wret, returned>>
    /\ UNCHANGED <<wstart, wfile, ingestVars, classVars, cmpVars, evoVars, fileVars>>

\* a call returns to its caller, or the outermost call returns
GetFileReturn ==
    /\ wpc = "return"
    /\ IF wstack = <<>>
       THEN /\ wpc' = "done"
            /\ UNCHANGED <<wstack, wcur, wret, returned>>
       ELSE LET top == wstack[Len(wstack)]
                value == AfterCall(top.site, wret)
            IN  /\ wstack' = SubSeq(wstack, 1, Len(wstack) - 1)
                /\ wcur' = top.sha
                /\ wret' = value
                /\ returned' = (top.sha :> value) @@ returned
                /\ UNCHANGED wpc
    /\ UNCHANGED <<wstart, wfile, visited, loads, ingestVars, classVars, cmpVars, evoVars, fileVars>>


(***************************************************************************)
(* Stores handed to the reconstructor: every record a <sha>.json file of   *)
(* the data directory may hold, whoever wrote it.                          *)
(***************************************************************************)
MainPy == <<"s", "r", "c", "/", "m", "a", "i", "n", ".", "p", "y">>
ReadmeMd == <<"R", "E", "A", "D", "M", "E", ".", "m", "d">>

\* full content of a file as of commit `sha`: two lines, the first naming the commit
ContentAt(sha) == << Line(<<"v", sha>>, 0), Line(<<"e", "n", "d">>, 0) >>
\* a pure-addition patch: hunk header, then the added lines
NewFilePatch == << Line(<<"@", "@", " ", "-", "0", " ", "+", "1", " ", "@", "@">>, 0),
                   Line(<<"+", "a">>, 0), Line(<<"+">>, 0), Line(<<"+", "+", "b">>, 0) >>

StoredDiff(filename, status, patch, after, type) ==
    [filename |-> filename, status |-> status, additions |-> 1, deletions |-> 0,
     changes |-> 1, patch |-> patch, before_code |-> None, after_code |-> after,
     storage_type |-> type]

FileKinds == {"none", "other", "full", "patch_new", "patch_only", "empty_after",
              "ref_c1", "ref_c2", "ref_c3"}

FilesOfKind(sha, kind) ==
    CASE kind = "none" -> <<>>
      [] kind = "other" ->
            << StoredDiff(ReadmeMd, "modified", EmptyStr, ContentAt(sha), "full") >>
      [] kind = "full" ->
            << StoredDiff(MainPy, "modified", EmptyStr, ContentAt(sha), "full") >>
      [] kind = "patch_new" ->
            << StoredDiff(ReadmeMd, "added", NewFilePatch, None, "patch_new"),
               StoredDiff(MainPy, "added", NewFilePatch, None, "patch_new") >>
      [] kind = "patch_only" ->
            << StoredDiff(MainPy, "modified", NewFilePatch, None, "patch_only") >>
      [] kind = "patch_empty" ->
            << StoredDiff(MainPy, "added", << Line(<<"@", "@">>, 0) >>, None, "patch_new") >>
      [] kind = "empty_after" ->
            << [filename |-> MainPy, status |-> "modified", additions |-> 1,
                deletions |-> 0, changes |-> 1, patch |-> NewFilePatch,
                before_code |-> EmptyStr, after_code |-> EmptyStr] >>
      [] kind = "ref_c1" ->
            << [StoredDiff(MainPy, "modified", NewFilePatch, None, "incremental_update")
                  EXCEPT !.patch = EmptyStr] @@ [before_reference |-> "c1"] >>
      [] kind = "ref_c2" ->
            << StoredDiff(MainPy, "modified", NewFilePatch, None, "incremental_update")
                  @@ [before_reference |-> "c2"] >>
      [] kind = "ref_c3" ->
            << StoredDiff(MainPy, "modified", NewFilePatch, None, "incremental_update")
                  @@ [before_reference |-> "c3"] >>

NoEvent == [type |-> "none", description |-> [text |-> "", args |-> <<>>],
            files_changed |-> 0, total_additions |-> 0, total_deletions |-> 0]

SyntheticRecord(sha, parent, kind) ==
    [commit_sha |-> sha, parent_sha |-> parent, timestamp |-> 0, message |-> <<>>,
     event |-> [NoEvent EXCEPT !.type = "minor_update",
                               !.files_changed = Len(FilesOfKind(sha, kind))],
     files |-> FilesOfKind(sha, kind)]

RecordChoices ==
    [present : {TRUE}, parent : Shas \cup {NoSha}, kind : FileKinds]
        \cup {[present |-> FALSE, parent |-> NoSha, kind |-> "none"]}

StoreOf(ch) ==
    [s \in {x \in Shas : ch[x].present} |-> SyntheticRecord(s, ch[s].parent, ch[s].kind)]

SyntheticStores == { StoreOf(ch) : ch \in [Shas -> RecordChoices] }

NoAnalysis == [sha |-> NoSha, listed |-> 0, parent_sha |-> NoSha, reached |-> 0,
               fetches |-> <<>>, outcome |-> "none"]
NoDelivery == [signature |-> "none", event |-> "none", json |-> FALSE,
               full_name |-> <<>>, commits |-> <<>>]
NoInput == [analysis |-> [new_files |-> 0, deleted_files |-> 0, modified_files |-> 0,
                          directories |-> {}, has_dependencies |-> FALSE,
                          has_config |-> FALSE, has_docs |-> FALSE, has_tests |-> FALSE,
                          large_changes |-> 0],
            files_changed |-> 0, additions |-> 0, deletions |-> 0, message |-> <<>>]

WalkIdle ==
    /\ wpc = "idle" /\ wstack = <<>> /\ wcur = NoSha /\ wstart = NoSha
    /\ wfile = <<>> /\ wret = None /\ visited = <<>> /\ loads = 0 /\ returned = <<>>
NoCommit == [files |-> <<>>, stats |-> [additions |-> 0, deletions |-> 0], message |-> <<>>]
ClassifyIdle == cin = NoInput /\ cout = NoEvent /\ kin = NoCommit /\ kout = <<>>
NoComparison == [status |-> "none"]
CompareIdle == cpc = "idle" /\ cres = NoComparison
NoCall == [op |-> "none"]
EvolveIdle == ein = NoCall /\ eout = NoCall
NoWrite == [pc |-> "idle"]
NoRead == [pc |-> "idle"]
FilesIdle ==
    /\ disk = <<>> /\ writer = NoWrite /\ saves = {} /\ reader = NoRead /\ submits = <<>>
IngestIdle ==
    /\ repos = {} /\ upstream = <<>> /\ now = 0 /\ hpc = "idle" /\ queue = <<>>
    /\ last = NoAnalysis /\ resp = 0 /\ seen = <<>>
    /\ delivery = NoDelivery /\ done = <<>>

\* files a caller asks the reconstructor for
QueryFiles == {MainPy}

InitRecon ==
    /\ store \in SyntheticStores
    /\ IngestIdle /\ WalkIdle /\ ClassifyIdle /\ CompareIdle /\ EvolveIdle /\ FilesIdle

NextRecon ==
    \/ \E sha \in Shas, filename \in QueryFiles : GetFileStart(sha, filename)
    \/ GetFileCall
    \/ GetFileReturn

SpecRecon == InitRecon /\ [][NextRecon]_vars


(***************************************************************************)
(* Shape of a store's links, read off the records alone.                   *)
(***************************************************************************)
NShas == Cardinality(Shas)
SetMax(S) == IF S = {} THEN 0 ELSE CHOOSE m \in S : \A x \in S : x <= m
NoDuplicates(s) == \A i, j \in 1..Len(s) : i # j => s[i] # s[j]
ListsFile(st, c, filename) == HasRecord(st, c) /\ FirstFileDiff(st[c].files, filename) # 0

\* the stored commits met by following parent_sha from c, at most `fuel` of them
RECURSIVE ParentChain(_, _, _)
ParentChain(st, c, fuel) ==
    IF fuel = 0 \/ ~HasRecord(st, c) THEN <<>>
    ELSE <<c>> \o ParentChain(st, st[c].parent_sha, fuel - 1)
ParentCyclicFrom(st, c) == Len(ParentChain(st, c, NShas + 1)) > NShas
ParentsAcyclic(st) == \A c \in Shas : ~ParentCyclicFrom(st, c)
ParentDepth(st, c) == Len(ParentChain(st, c, NShas))

\* commits a record points to: its parent and its incremental references
Links(st, c) ==
    ({st[c].parent_sha} \cup
     { GetBeforeReference(st[c].files[i]) :
         i \in {j \in 1..Len(st[c].files) :
                  GetStorageType(st[c].files[j]) = "incremental_update"} })
        \ {NoSha}
RECURSIVE LinkDepthUpTo(_, _, _)
LinkDepthUpTo(st, c, fuel) ==
    IF fuel = 0 \/ ~HasRecord(st, c) THEN 0
    ELSE 1 + SetMax({ LinkDepthUpTo(st, d, fuel - 1) : d \in Links(st, c) })
LinksAcyclic(st) == \A c \in Shas : LinkDepthUpTo(st, c, NShas + 1) <= NShas
LinkDepth(st, c) == LinkDepthUpTo(st, c, NShas)

\* how a finished get_file_at_commit ended
Outcome ==
    CASE wpc = "raised" -> "RecursionError"
      [] wpc = "done" /\ wret = None -> "absent"
      [] wpc = "done" /\ wret # None -> "content"
      [] OTHER -> "running"

\* the parent chain from c loops and no commit on it lists the file
CyclicUnlistedChain(st, c, filename) ==
    /\ ParentCyclicFrom(st, c)
    /\ \A i \in 1..NShas : ~ListsFile(st, ParentChain(st, c, NShas)[i], filename)

\* C1 (as claimed): resolving a file over a parent chain that loops (A has
\* parent B, B has parent A, neither lists the file) ends with the explicit
\* outcome CycleDetected, not with exhausted recursion and not with absent.
C1_CycleDetected ==
    (CyclicUnlistedChain(store, wstart, wfile) /\ Outcome # "running")
        => Outcome = "CycleDetected"

\* C2 (as claimed): in a store whose parent links are acyclic, whatever the
\* storage types and incremental references, a resolution loads at most as
\* many records as the parent chain from its commit is deep and never enters
\* a commit twice.
C2_BoundedByParentDepth ==
    ParentsAcyclic(store) =>
        /\ loads <= ParentDepth(store, wstart)
        /\ NoDuplicates(visited)

\* C2 (amended): in a store whose parent links and incremental references
\* together are acyclic, a resolution loads at most as many records as the
\* longest chain of such links from its commit and never enters a commit twice.
C2_BoundedByLinkDepth ==
    LinksAcyclic(store) =>
        /\ loads <= LinkDepth(store, wstart)
        /\ NoDuplicates(visited)

\* a finished resolution that followed an incremental reference off the parent
\* chain and loaded more records than the parent chain holds
C2_Witness ==
    /\ wpc = "done"
    /\ LinksAcyclic(store)
    /\ ListsFile(store, wstart, wfile)
    /\ GetStorageType(store[wstart].files[FirstFileDiff(store[wstart].files, wfile)])
          = "incremental_update"
    /\ loads = 3
    /\ ParentDepth(store, wstart) = 1

\* the parent chain from c is stored down to a root, the root alone lists the
\* file, and it holds the file's full content
OnlyRootLists(st, c, filename) ==
    LET chain == ParentChain(st, c, NShas)
        root == chain[Len(chain)]
    IN  /\ ~ParentCyclicFrom(st, c)
        /\ Len(chain) > 0
        /\ st[root].parent_sha = NoSha
        /\ \A i \in 1..(Len(chain) - 1) : ~ListsFile(st, chain[i], filename)
        /\ ListsFile(st, root, filename)
        /\ Truthy(GetAfterCode(st[root].files[FirstFileDiff(st[root].files, filename)]))
RootContent(st, c, filename) ==
    LET chain == ParentChain(st, c, NShas)
        root == chain[Len(chain)]
    IN  GetAfterCode(st[root].files[FirstFileDiff(st[root].files, filename)])

\* C3: when only the root of the chain lists the file, with full content,
\* resolving at the tip returns the root's content; and every call made on a
\* commit that lists no FileDiff for the file returns what the call on its
\* parent returned, or absent when it has no parent.
C3_UnchangedFollowsParent ==
    /\ (wpc = "done" /\ OnlyRootLists(store, wstart, wfile))
          => wret = RootContent(store, wstart, wfile)
    /\ \A c \in DOMAIN returned :
          (HasRecord(store, c) /\ ~ListsFile(store, c, wfile)) =>
              IF store[c].parent_sha = NoSha THEN returned[c] = None
              ELSE /\ store[c].parent_sha \in DOMAIN returned
                   /\ returned[c] = returned[store[c].parent_sha]

\* a chain of three commits resolved at the tip, the root's content returned
C3_Witness ==
    /\ wpc = "done"
    /\ OnlyRootLists(store, wstart, wfile)
    /\ Len(visited) = 3
    /\ wret = ContentAt(visited[3])
    /\ returned[wstart] = wret


(***************************************************************************)
(* get_file_comparison and _determine_status.                              *)
(***************************************************************************)
\* _determine_status testing truthiness, as get_file_at_commit does
_determine_status_truthy(before, after) ==
    IF ~Truthy(before) /\ Truthy(after) THEN "added"
    ELSE IF Truthy(before) /\ ~Truthy(after) THEN "removed"
    ELSE IF Truthy(before) /\ Truthy(after) THEN "modified"
    ELSE "unknown"

_determine_status(before, after) ==
    IF before = None /\ after # None THEN "added"
    ELSE IF before # None /\ after = None THEN "removed"
    ELSE IF before # None /\ after # None THEN "modified"
    ELSE "unknown"

NotFound == [error |-> "Commit not found"]

\* lines 110-117: the dictionary get_file_comparison returns
Comparison(filename, commit_sha, parent_sha, before, after) ==
    [filename |-> filename, commit_sha |-> commit_sha, parent_sha |-> parent_sha,
     before |-> before, after |-> after, status |-> _determine_status(before, after)]

\* get_file_comparison is called: lines 96-104, up to the call for the post-image
CompareStart(sha, filename) ==
    /\ cpc \in {"idle", "done", "raised"}
    /\ wpc \in {"idle", "done", "raised"}
    /\ IF ~HasRecord(store, sha)
       THEN /\ cpc' = "done"
            /\ cres' = NotFound
            /\ UNCHANGED walkVars
       ELSE /\ cpc' = "after"
            /\ cres' = [filename |-> filename, commit_sha |-> sha,
                        parent_sha |-> store[sha].parent_sha]
            /\ EnterGetFile(sha, filename)
    /\ UNCHANGED <<ingestVars, classVars, evoVars, fileVars>>

\* lines 104-118: the post-image is back; the pre-image is asked for at the
\* parent, or there is no parent and the result is returned
CompareAfter ==
    /\ cpc = "after"
    /\ wpc \in {"done", "raised"}
    /\ IF wpc = "raised"
       THEN /\ cpc' = "raised"
            /\ UNCHANGED <<cres, walkVars>>
       ELSE IF TruthySha(cres.parent_sha)
       THEN /\ cpc' = "before"
            /\ cres' = cres @@ [after |-> wret]
            /\ EnterGetFile(cres.parent_sha, cres.filename)
       ELSE /\ cpc' = "done"
            /\ cres' = Comparison(cres.filename, cres.commit_sha, cres.parent_sha, None, wret)
            /\ UNCHANGED walkVars
    /\ UNCHANGED <<ingestVars, classVars, evoVars, fileVars>>

\* lines 109-118 with the pre-image left as it was initialised, absent
CompareBefore_absent ==
    /\ cpc = "before"
    /\ wpc \in {"done", "raised"}
    /\ IF wpc = "raised"
       THEN /\ cpc' = "raised"
            /\ UNCHANGED cres
       ELSE /\ cpc' = "done"
            /\ cres' = Comparison(cres.filename, cres.commit_sha, cres.parent_sha,
                                  None, cres.after)
    /\ UNCHANGED <<walkVars, ingestVars, classVars, evoVars, fileVars>>

\* lines 109-118: the pre-image is back and the result is returned
CompareBefore ==
    /\ cpc = "before"
    /\ wpc \in {"done", "raised"}
    /\ IF wpc = "raised"
       THEN /\ cpc' = "raised"
            /\ UNCHANGED cres
       ELSE /\ cpc' = "done"
            /\ cres' = Comparison(cres.filename, cres.commit_sha, cres.parent_sha,
                                  wret, cres.after)
    /\ UNCHANGED <<walkVars, ingestVars, classVars, evoVars, fileVars>>

\* stores handed to get_file_comparison
CompareKinds == {"none", "full", "patch_only", "patch_empty"}
CompareStores ==
    { StoreOf(ch) :
        ch \in [Shas -> [present : {TRUE}, parent : Shas \cup {NoSha}, kind : CompareKinds]
                          \cup {[present |-> FALSE, parent |-> NoSha, kind |-> "none"]}] }
\* the commit callers ask about; the stores cover every arrangement around it
QueryShas == {"c1"}

InitCompare ==
    /\ store \in CompareStores
    /\ IngestIdle /\ WalkIdle /\ ClassifyIdle /\ CompareIdle /\ EvolveIdle /\ FilesIdle

NextCompare ==
    \/ \E sha \in QueryShas, filename \in QueryFiles : CompareStart(sha, filename)
    \/ CompareAfter
    \/ CompareBefore
    \/ \E sha \in QueryShas, filename \in QueryFiles : GetFileStart(sha, filename)
    \/ GetFileCall
    \/ GetFileReturn

SpecCompare == InitCompare /\ [][NextCompare]_vars

\* the value get_file_at_commit returns for a call nested at most `fuel` deep
RECURSIVE Resolve(_, _, _, _)
Resolve(st, sha, filename, fuel) ==
    IF fuel = 0 THEN None
    ELSE LET step == CallBody(st, sha, filename)
         IN  IF step.op = "return" THEN step.value
             ELSE AfterCall(step.site, Resolve(st, step.target, filename, fuel - 1))

\* C14 (as claimed): asking for a file at a commit that has no record gives an
\* explicit not-found outcome, different from the absent outcome given when
\* the record exists and the content cannot be determined, from
\* get_file_at_commit as well as from get_file_comparison.
C14_RecordNotFoundExplicit ==
    /\ (wpc = "done" /\ cpc = "idle" /\ ~HasRecord(store, wstart)) => wret # None
    /\ (cpc = "done" /\ cres # NotFound) => HasRecord(store, cres.commit_sha)

\* C15: a comparison that returns for a stored commit has `after` the
\* resolution at the commit and `before` the resolution at its parent (absent
\* without a parent), and its status is added, removed, modified or unknown
\* exactly by which of the two sides are absent.
C15_ComparisonComposes ==
    (cpc = "done" /\ cres # NotFound) =>
        /\ cres.after = Resolve(store, cres.commit_sha, cres.filename, StackLimit)
        /\ cres.before = IF TruthySha(store[cres.commit_sha].parent_sha)
                         THEN Resolve(store, store[cres.commit_sha].parent_sha,
                                      cres.filename, StackLimit)
                         ELSE None
        /\ cres.status = "added" <=> (cres.before = None /\ cres.after # None)
        /\ cres.status = "removed" <=> (cres.before # None /\ cres.after = None)
        /\ cres.status = "modified" <=> (cres.before # None /\ cres.after # None)
        /\ cres.status = "unknown" <=> (cres.before = None /\ cres.after = None)

\* a comparison at a commit that adds the file empty on top of a parent that
\* does not have it: after is the empty text, before is absent, status added
C15_Witness ==
    /\ cpc = "done" /\ cres # NotFound
    /\ TruthySha(cres.parent_sha) /\ HasRecord(store, cres.parent_sha)
    /\ cres.after = EmptyStr
    /\ cres.before = None
    /\ cres.status = "added"


(***************************************************************************)
(* The classifier applied to every combination of its arguments.           *)
(***************************************************************************)
ClassifyMessages ==
    { <<"F", "i", "x", " ", "t", "y", "p", "o">>,
      <<"h", "o", "t", "p", "a", "t", "c", "h">>,
      <<"N", "e", "w", " ", "F", "e", "a", "t", "u", "r", "e">>,
      <<"a", "d", "d", " ", "b", "u", "g">>,
      <<"w", "i", "p">> }

ClassifyInputs ==
    [ analysis : [ new_files : {0, 1, 4}, deleted_files : {0, 1}, modified_files : {0},
                   directories : { {}, {<<"s", "r", "c">>},
                                   {<<"s", "r", "c">>, <<"l", "i", "b">>} },
                   has_dependencies : BOOLEAN, has_config : BOOLEAN,
                   has_docs : BOOLEAN, has_tests : BOOLEAN, large_changes : {0} ],
      files_changed : {2, 3, 4},
      additions : {49, 50, 301},
      deletions : {0, 201, 302},
      message : ClassifyMessages ]

InitClassify ==
    /\ cin \in ClassifyInputs
    /\ cout = NoEvent
    /\ kin = NoCommit /\ kout = <<>>
    /\ store = <<>>
    /\ IngestIdle /\ WalkIdle /\ CompareIdle /\ EvolveIdle /\ FilesIdle

\* _classify_work(analysis, files_changed, additions, deletions, message) runs
Classify ==
    /\ cout = NoEvent
    /\ cout' = _classify_work(cin.analysis, cin.files_changed, cin.additions,
                              cin.deletions, cin.message)
                 @@ [files_changed |-> cin.files_changed,
                     total_additions |-> cin.additions,
                     total_deletions |-> cin.deletions]
    /\ UNCHANGED <<cin, kin, kout, ingestVars, walkVars, cmpVars, evoVars, fileVars>>

NextClassify == Classify

SpecClassify == InitClassify /\ [][NextClassify]_vars

\* the thirteen rules in their stated order: condition and event type
RuleHolds(n, in) ==
    CASE n = 1 -> in.analysis.has_dependencies
      [] n = 2 -> Cardinality(in.analysis.directories) > 1 /\ in.analysis.new_files > 3
      [] n = 3 -> in.analysis.has_config /\ in.files_changed <= 3
      [] n = 4 -> in.analysis.has_docs /\ in.files_changed <= 2
      [] n = 5 -> in.analysis.has_tests
      [] n = 6 -> in.deletions > in.additions /\ in.deletions > 200
      [] n = 7 -> in.additions > 300
      [] n = 8 -> in.analysis.new_files >= 1
      [] n = 9 -> in.analysis.deleted_files >= 1
      [] n = 10 -> \E w \in FixWords : Contains(LowerSeq(in.message), w)
      [] n = 11 -> \E w \in FeatWords : Contains(LowerSeq(in.message), w)
      [] n = 12 -> in.files_changed <= 2 /\ in.additions < 50
      [] n = 13 -> TRUE
RuleType ==
    << "dependency_update", "new_module", "config_change", "documentation", "testing",
       "refactor", "major_feature", "files_added", "cleanup", "bug_fix", "feature",
       "minor_update", "major_update" >>
FirstRule(in) == CHOOSE n \in 1..13 : RuleHolds(n, in) /\ \A m \in 1..(n - 1) : ~RuleHolds(m, in)

\* C4: the classifier returns the type of the lowest-numbered of the thirteen
\* rules whose condition holds; with the dependency and the documentation
\* signal both present that is dependency_update.
C4_FirstMatchWins ==
    cout # NoEvent =>
        /\ cout.type = RuleType[FirstRule(cin)]
        /\ (RuleHolds(1, cin) /\ RuleHolds(4, cin)) => cout.type = "dependency_update"

\* a classified commit that carries the dependency and the documentation signal
C4_Witness ==
    /\ cout # NoEvent
    /\ RuleHolds(1, cin) /\ RuleHolds(4, cin)
    /\ cout.type = "dependency_update"


(***************************************************************************)
(* GitHubMonitor.get_file_content and GitHubMonitor.analyze_commit.        *)
(***************************************************************************)
\* the patch length above which full content is fetched
PatchThreshold == 800

\* the remote host's answer to a content request: "ok" a 200 response,
\* "failed" another status or content that does not decode, "raise" a timeout
\* or transport failure inside requests.get; to a commit-detail request: "ok",
\* "status" another status, "raise"
FetchOutcomes == {"ok", "failed", "raise"}
DetailOutcomes == {"ok", "status", "raise"}

\* content of `path` at `ref` on the remote host
RemoteContent(path, ref) == << Line(<<"v", ref>>, 0), Line(path, 0) >>

\* get_file_content's return value when the request does not raise
get_file_content(outcome, path, ref) ==
    IF outcome = "ok" THEN RemoteContent(path, ref) ELSE EmptyStr

\* needs_full_file with the comparison including the threshold itself
needs_full_file_inclusive(patch) == StrLen(patch) >= PatchThreshold

needs_full_file(patch) == StrLen(patch) > PatchThreshold

Fetch(side, ref) == [side |-> side, ref |-> ref]

\* lines 98-127 with a renamed file handled like a modified one
FetchPlan_rename_both(status, needs, sha, parent_sha) ==
    IF status = "added"
        THEN IF needs THEN << Fetch("after", sha) >> ELSE <<>>
    ELSE IF status = "removed" THEN <<>>
    ELSE IF status \in {"modified", "renamed"}
        THEN IF needs
             THEN (IF TruthySha(parent_sha) THEN << Fetch("before", parent_sha) >> ELSE <<>>)
                    \o << Fetch("after", sha) >>
             ELSE <<>>
    ELSE <<>>

\* lines 98-127 with a removed file's post-image requested like an added file's
FetchPlan_removed_after(status, needs, sha, parent_sha) ==
    IF status \in {"added", "removed"}
        THEN IF needs THEN << Fetch("after", sha) >> ELSE <<>>
    ELSE IF status = "modified"
        THEN IF needs
             THEN (IF TruthySha(parent_sha) THEN << Fetch("before", parent_sha) >> ELSE <<>>)
                    \o << Fetch("after", sha) >>
             ELSE <<>>
    ELSE IF status = "renamed"
        THEN IF needs THEN << Fetch("after", sha) >> ELSE <<>>
    ELSE <<>>

\* lines 98-127: the content requests made for one file, in the order made
FetchPlan(status, needs, sha, parent_sha) ==
    IF status = "added"
        THEN IF needs THEN << Fetch("after", sha) >> ELSE <<>>
    ELSE IF status = "removed" THEN <<>>
    ELSE IF status = "modified"
        THEN IF needs
             THEN (IF TruthySha(parent_sha) THEN << Fetch("before", parent_sha) >> ELSE <<>>)
                    \o << Fetch("after", sha) >>
             ELSE <<>>
    ELSE IF status = "renamed"
        THEN IF needs THEN << Fetch("after", sha) >> ELSE <<>>
    ELSE <<>>

\* lines 85-127: the FileDiff of one file; fo gives the outcome of each side's request
FileDiffOf(f, sha, parent_sha, fo) ==
    LET base == [filename |-> f.filename, status |-> f.status, additions |-> f.additions,
                 deletions |-> f.deletions, changes |-> f.changes, patch |-> f.patch]
        plan == FetchPlan(f.status, needs_full_file(f.patch), sha, parent_sha)
        got(side) == IF \E k \in 1..Len(plan) : plan[k].side = side
                     THEN get_file_content(fo[side], f.filename,
                                           IF side = "after" THEN sha ELSE parent_sha)
                     ELSE None
    IN  IF f.status \in {"added", "removed", "modified", "renamed"}
        THEN base @@ [before_code |-> got("before"), after_code |-> got("after")]
        ELSE base

ParentOf(detail) == IF detail.parents # <<>> THEN detail.parents[1] ELSE NoSha

\* the content requests analyze_commit makes for a commit when none raises,
\* in the order made
RECURSIVE PlannedFrom(_, _, _, _)
PlannedFrom(files, i, sha, parent_sha) ==
    IF i > Len(files) THEN <<>>
    ELSE LET plan == FetchPlan(files[i].status, needs_full_file(files[i].patch),
                               sha, parent_sha)
         IN  [k \in 1..Len(plan) |->
                [file |-> i, side |-> plan[k].side, ref |-> plan[k].ref,
                 path |-> files[i].filename]]
             \o PlannedFrom(files, i + 1, sha, parent_sha)
Planned(up, sha) ==
    IF sha \in DOMAIN up THEN PlannedFrom(up[sha].files, 1, sha, ParentOf(up[sha]))
    ELSE <<>>

\* get_commit_details: the commit detail, or nothing when the response is not
\* a 200 (the host has no such commit, or answers with another status)
NoDetail == [found |-> FALSE]
\* get_commit_details reading a response that is not a 200 as a commit without files
get_commit_details_any_status(up, sha, d) ==
    IF d = "ok" /\ sha \in DOMAIN up THEN up[sha]
    ELSE [files |-> <<>>, parents |-> <<>>, message |-> <<>>,
          stats |-> [additions |-> 0, deletions |-> 0]]

get_commit_details(up, sha, d) ==
    IF d = "ok" /\ sha \in DOMAIN up THEN up[sha] ELSE NoDetail

\* lines 131-139: the classification of a commit from its change list, its
\* stats and its message
ClassifyCommit(files, stats, message) ==
    _classify_work(_analyze_files(files), Len(files), stats.additions, stats.deletions,
                   message)

Failed(result) ==
    [result |-> result, files |-> <<>>, parent_sha |-> NoSha, reached |-> 0,
     fetches |-> <<>>, event |-> NoEvent, file_diffs |-> <<>>]

\* analyze_commit(owner, repo, sha): d is the outcome of the commit-detail
\* request, outs[k] the outcome of the k-th content request
analyze_commit(up, sha, d, outs) ==
    IF d = "raise" THEN Failed("raised")
    ELSE IF get_commit_details(up, sha, d) = NoDetail THEN Failed("empty")
    ELSE
    LET commit == get_commit_details(up, sha, d)
        files == commit.files
        parent_sha == ParentOf(commit)
        planned == PlannedFrom(files, 1, sha, parent_sha)
        raising == {k \in 1..Len(planned) : outs[k] = "raise"}
        nmade == IF raising = {} THEN Len(planned)
                 ELSE CHOOSE k \in raising : \A j \in raising : k <= j
        made == [k \in 1..nmade |-> planned[k] @@ [outcome |-> outs[k]]]
        fo(i) == [side \in {"before", "after"} |->
                    IF \E k \in 1..Len(planned) : planned[k].file = i /\ planned[k].side = side
                    THEN outs[CHOOSE k \in 1..Len(planned) :
                                planned[k].file = i /\ planned[k].side = side]
                    ELSE "ok"]
        classified == ClassifyCommit(files, commit.stats, commit.message)
    IN  IF raising # {}
        THEN [Failed("raised") EXCEPT !.files = files, !.parent_sha = parent_sha,
                                      !.reached = planned[nmade].file, !.fetches = made]
        ELSE [result |-> "ok", files |-> files, parent_sha |-> parent_sha,
              reached |-> Len(files), fetches |-> made,
              event |-> classified @@ [files_changed |-> Len(files),
                                       total_additions |-> commit.stats.additions,
                                       total_deletions |-> commit.stats.deletions],
              file_diffs |-> [i \in 1..Len(files) |->
                                FileDiffOf(files[i], sha, parent_sha, fo(i))]]

(***************************************************************************)
(* The web application (app.py): registry, webhook, commit store.          *)
(***************************************************************************)
OctoApp == <<"o", "c", "t", "o", "/", "a", "p", "p">>
RequirementsTxt == <<"r", "e", "q", "u", "i", "r", "e", "m", "e", "n", "t", "s", ".", "t", "x", "t">>

\* a patch of the given length: a hunk header and one added line
PatchOfLen(n) == << Line(<<"@", "@">>, 0), Line(<<"+">>, n - 4) >>

UpFile(filename, status, patch) ==
    [filename |-> filename, status |-> status, patch |-> patch,
     additions |-> Len(SelectSeq(patch, IsAddedLine)), deletions |-> 0,
     changes |-> Len(SelectSeq(patch, IsAddedLine))]

RECURSIVE TotalAdditions(_)
TotalAdditions(files) ==
    IF files = <<>> THEN 0 ELSE Head(files).additions + TotalAdditions(Tail(files))
Detail(files, parents, message) ==
    [files |-> files, parents |-> parents, message |-> message,
     stats |-> [additions |-> TotalAdditions(files), deletions |-> 0]]

\* change lists of the root commit c1 and of its child c2 on the remote host
RootFileLists ==
    << << UpFile(RequirementsTxt, "added", PatchOfLen(40)),
          UpFile(ReadmeMd, "added", PatchOfLen(30)) >>,
       << UpFile(MainPy, "added", NewFilePatch) >>,
       << UpFile(MainPy, "added", PatchOfLen(PatchThreshold + 1)),
          UpFile(ReadmeMd, "modified", PatchOfLen(PatchThreshold + 1)) >> >>
ChildFileLists ==
    << << UpFile(MainPy, "modified", PatchOfLen(PatchThreshold)),
          UpFile(ReadmeMd, "removed", PatchOfLen(PatchThreshold + 1)) >>,
       << UpFile(MainPy, "modified", PatchOfLen(PatchThreshold + 1)),
          UpFile(ReadmeMd, "added", PatchOfLen(PatchThreshold)) >>,
       << UpFile(MainPy, "renamed", PatchOfLen(PatchThreshold + 1)),
          UpFile(ReadmeMd, "renamed", PatchOfLen(PatchThreshold)) >>,
       << UpFile(ReadmeMd, "copied", PatchOfLen(PatchThreshold + 1)) >> >>

\* the remote host knows c1 and c2; c3 exists nowhere.  What is asked of the
\* host for c2 does not depend on c1's change list, so every change list is
\* paired with one of the other commit's, not with each
UpstreamPairs == { <<1, 2>>, <<2, 3>>, <<3, 1>>, <<3, 4>> }
Upstreams ==
    { [c \in {"c1", "c2"} |->
         IF c = "c1" THEN Detail(RootFileLists[pr[1]], <<>>, <<"i", "n", "i", "t">>)
         ELSE Detail(ChildFileLists[pr[2]], <<"c1">>, <<"F", "i", "x">>)] :
      pr \in UpstreamPairs }

\* one entry of a push notification's commit list
PushCommits == [id : Shas, message : {<<"m", "s", "g">>}]
\* an entry without an id
NoIdCommit == [id |-> NoSha, message |-> <<"m", "s", "g">>]
RECURSIVE SeqsUpTo(_, _)
SeqsUpTo(S, n) ==
    IF n = 0 THEN {<<>>}
    ELSE SeqsUpTo(S, n - 1) \cup
         { Append(q, x) : q \in {r \in SeqsUpTo(S, n - 1) : Len(r) = n - 1}, x \in S }

\* a delivery to /webhook: signature check result, event header, JSON body
Deliveries ==
    [signature : {"ok"}, event : {"push"}, json : {TRUE}, full_name : {OctoApp},
     commits : SeqsUpTo(PushCommits, MaxPush)]
    \cup { [signature |-> "bad", event |-> "push", json |-> TRUE, full_name |-> OctoApp,
            commits |-> << [id |-> "c1", message |-> <<"m", "s", "g">>] >>],
           [signature |-> "ok", event |-> "ping", json |-> TRUE, full_name |-> OctoApp,
            commits |-> <<>>],
           [signature |-> "ok", event |-> "push", json |-> FALSE, full_name |-> <<>>,
            commits |-> <<>>],
           [signature |-> "ok", event |-> "push", json |-> TRUE, full_name |-> <<"a", "p", "p">>,
            commits |-> << [id |-> "c1", message |-> <<"m", "s", "g">>] >>],
           [signature |-> "ok", event |-> "push", json |-> TRUE, full_name |-> <<>>,
            commits |-> << [id |-> "c1", message |-> <<"m", "s", "g">>] >>],
           [signature |-> "ok", event |-> "push", json |-> TRUE, full_name |-> OctoApp,
            commits |-> << NoIdCommit, [id |-> "c1", message |-> <<"m", "s", "g">>] >>],
           [signature |-> "ok", event |-> "push", json |-> TRUE, full_name |-> OctoApp,
            commits |-> << [id |-> "c2", message |-> <<"m", "s", "g">>], NoIdCommit >>] }

\* submit_repo registers owner/repo
SubmitRepo(key) ==
    /\ key \notin repos
    /\ repos' = repos \cup {key}
    /\ UNCHANGED <<store, upstream, now, hpc, queue, last, resp, seen, delivery, done,
                   walkVars, classVars, cmpVars, evoVars, fileVars>>

\* github_webhook, lines 93-132: the checks before the commit loop; a delivery
\* that fails one is answered at once
WebhookReceive(d) ==
    /\ hpc = "idle"
    /\ delivery' = d
    /\ done' = <<>>
    /\ IF d.signature = "bad"
       THEN resp' = 401 /\ hpc' = "acked" /\ UNCHANGED queue
       ELSE IF \/ ~d.json
               \/ d.event # "push"
               \/ d.full_name = <<>> \/ ~Contains(d.full_name, <<"/">>)
               \/ d.commits = <<>>
               \/ d.full_name \notin repos
       THEN resp' = 200 /\ hpc' = "acked" /\ UNCHANGED queue
       ELSE resp' = 0 /\ hpc' = "loop" /\ queue' = d.commits
    /\ UNCHANGED <<store, repos, upstream, now, last, seen, walkVars, classVars, cmpVars, evoVars, fileVars>>

\* save_commit_history writes <sha>.json, replacing the file if it exists
save_commit_history(st, commit_data) ==
    (commit_data.commit_sha :> commit_data) @@ st

\* the for loop of line 134 taking the remaining commits from the end
ForCommit_last_first(q) == [commit |-> q[Len(q)], rest |-> SubSeq(q, 1, Len(q) - 1)]

\* the for loop of line 134: the commit it takes next, and those left after it
ForCommit(q) == [commit |-> Head(q), rest |-> Tail(q)]

\* github_webhook, lines 134-163: one pass of the commit loop
WebhookCommit ==
    /\ hpc = "loop" /\ queue # <<>>
    /\ now < MaxSaves
    /\ LET commit == ForCommit(queue).commit
           sha == commit.id
       IN  IF ~TruthySha(sha)
           THEN /\ done' = Append(done, [sha |-> sha, outcome |-> "noid", failed |-> FALSE,
                                         at |-> 0])
                /\ UNCHANGED <<last, store, seen, now>>
           ELSE
           \E d \in DetailOutcomes :
           \E outs \in [1..(IF d = "ok" THEN Len(Planned(upstream, sha)) ELSE 0)
                           -> FetchOutcomes] :
           \E a \in {analyze_commit(upstream, sha, d, outs)} :
            /\ last' = [sha |-> sha, listed |-> Len(a.files), parent_sha |-> a.parent_sha,
                        reached |-> a.reached, fetches |-> a.fetches,
                        outcome |-> IF a.result = "ok" THEN "saved" ELSE a.result]
            /\ done' = Append(done,
                              [sha |-> sha,
                               outcome |-> IF a.result = "ok" THEN "saved" ELSE a.result,
                               failed |-> \/ d # "ok"
                                          \/ \E k \in 1..Len(a.fetches) :
                                                a.fetches[k].outcome # "ok",
                               at |-> IF a.result = "ok" THEN now + 1 ELSE 0])
            /\ IF a.result = "ok"
               THEN /\ store' = save_commit_history(store,
                                  [commit_sha |-> sha, parent_sha |-> a.parent_sha,
                                   timestamp |-> now + 1, message |-> commit.message,
                                   event |-> a.event, files |-> a.file_diffs])
                    /\ seen' = (sha :> [detail |-> d, fetches |-> a.fetches,
                                        message |-> commit.message]) @@ seen
                    /\ now' = now + 1
               ELSE UNCHANGED <<store, seen, now>>
    /\ queue' = ForCommit(queue).rest
    /\ UNCHANGED <<repos, upstream, hpc, resp, delivery, walkVars, classVars, cmpVars, evoVars, fileVars>>

\* github_webhook, lines 165-166: the loop is over, the event is acknowledged
WebhookDone ==
    /\ hpc = "loop" /\ queue = <<>>
    /\ hpc' = "acked"
    /\ resp' = 200
    /\ UNCHANGED <<store, repos, upstream, now, queue, last, seen, delivery, done,
                   walkVars, classVars, cmpVars, evoVars, fileVars>>

\* the response is sent and the handler's locals are gone
WebhookReturn ==
    /\ hpc = "acked"
    /\ hpc' = "idle"
    /\ resp' = 0
    /\ delivery' = NoDelivery
    /\ done' = <<>>
    /\ last' = NoAnalysis
    /\ UNCHANGED <<store, repos, upstream, now, queue, seen,
                   walkVars, classVars, cmpVars, evoVars, fileVars>>

Init ==
    /\ store = <<>>
    /\ repos = {} /\ now = 0 /\ hpc = "idle" /\ queue = <<>>
    /\ last = NoAnalysis /\ resp = 0 /\ seen = <<>>
    /\ delivery = NoDelivery /\ done = <<>>
    /\ upstream \in Upstreams
    /\ WalkIdle /\ ClassifyIdle /\ CompareIdle /\ EvolveIdle /\ FilesIdle

\* the web application alone
Next ==
    \/ SubmitRepo(OctoApp)
    \/ \E d \in Deliveries : WebhookReceive(d)
    \/ WebhookCommit
    \/ WebhookDone
    \/ WebhookReturn

Spec == Init /\ [][Next]_vars

\* the web application, and the reconstructor reading the store it writes
NextStored ==
    \/ SubmitRepo(OctoApp)
    \/ \E d \in Deliveries : WebhookReceive(d)
    \/ WebhookCommit
    \/ WebhookDone
    \/ WebhookReturn
    \/ \E sha \in {"c1", "c2"}, filename \in QueryFiles : GetFileStart(sha, filename)
    \/ GetFileCall
    \/ GetFileReturn

SpecStored == Init /\ [][NextStored]_vars


(***************************************************************************)
(* Ingestion: what is fetched and what is stored.                          *)
(***************************************************************************)
\* the change list analyze_commit read for the commit processed last
LastFiles == IF last.listed = 0 THEN <<>> ELSE upstream[last.sha].files
FetchesOf(i) == SelectSeq(last.fetches, LAMBDA r : r.file = i)
Absent(content) == ~Truthy(content)
SideOf(fd, side) == IF side = "after" THEN GetAfterCode(fd) ELSE GetBeforeCode(fd)

\* C5 (as claimed): when a content fetch for a file of a commit fails (a
\* non-success status, a timeout or a transport failure) the commit's record
\* is still written, with a FileDiff for every file and the failed side absent.
C5_FailedFetchStillStored ==
    (\E k \in 1..Len(last.fetches) : last.fetches[k].outcome # "ok") =>
        /\ last.outcome = "saved"
        /\ HasRecord(store, last.sha)
        /\ Len(store[last.sha].files) = Len(LastFiles)
        /\ \A i \in 1..Len(LastFiles) :
              store[last.sha].files[i].filename = LastFiles[i].filename
        /\ \A k \in 1..Len(last.fetches) :
              last.fetches[k].outcome # "ok" =>
                  Absent(SideOf(store[last.sha].files[last.fetches[k].file],
                                last.fetches[k].side))

\* C6 (as claimed): processing a commit again with the same payload entry and
\* the same answers from the remote host leaves its stored record as it was,
\* in every field.
C6_RedeliveryIdempotent ==
    [][\A s \in DOMAIN store :
          (s \in DOMAIN seen' /\ seen'[s] = seen[s]) => store'[s] = store[s]]_vars

\* C7 (as claimed): every stored FileDiff carries a storage-type tag, and for
\* a patch of at most 800 characters the tag is patch_new (status added) or
\* patch_only (otherwise) and no fetched content is stored.
C7_StorageTypeTag ==
    \A s \in DOMAIN store : \A i \in 1..Len(store[s].files) :
        LET fd == store[s].files[i] IN
        /\ "storage_type" \in DOMAIN fd
        /\ StrLen(fd.patch) <= PatchThreshold =>
              /\ GetStorageType(fd) = IF fd.status = "added" THEN "patch_new" ELSE "patch_only"
              /\ GetAfterCode(fd) = None
              /\ GetBeforeCode(fd) = None

\* the added lines of a patch in patch order, joined by newlines
RECURSIVE AddedLines(_)
AddedLines(patch) ==
    IF patch = <<>> THEN <<>>
    ELSE IF Head(patch).text # <<>> /\ Head(patch).text[1] = "+"
              /\ ~(Len(Head(patch).text) >= 3
                    /\ SubSeq(Head(patch).text, 1, 3) = <<"+", "+", "+">>)
         THEN << Line(Tail(Head(patch).text), Head(patch).pad) >> \o AddedLines(Tail(patch))
         ELSE AddedLines(Tail(patch))

\* C8 (as claimed): once a commit that adds a file with a non-empty patch of
\* at most 800 characters is ingested, resolving the file at that commit
\* returns the patch's added lines in patch order, not absent.
C8_AddedFileFromPatch ==
    (/\ wpc = "done"
     /\ ListsFile(store, wstart, wfile)
     /\ LET fd == store[wstart].files[FirstFileDiff(store[wstart].files, wfile)]
        IN  /\ fd.status = "added"
            /\ Truthy(fd.patch)
            /\ StrLen(fd.patch) <= PatchThreshold)
    => LET fd == store[wstart].files[FirstFileDiff(store[wstart].files, wfile)]
       IN  wret = AddedLines(fd.patch)

C10_FetchesPerFile ==
    \A i \in 1..Len(LastFiles) :
        /\ Len(FetchesOf(i)) <= 2
        /\ LastFiles[i].status = "removed" => FetchesOf(i) = <<>>
        /\ LastFiles[i].status = "renamed" =>
              /\ Len(FetchesOf(i)) <= 1
              /\ \A k \in 1..Len(FetchesOf(i)) :
                    FetchesOf(i)[k].side = "after" /\ FetchesOf(i)[k].ref = last.sha

\* a renamed file with a patch over the threshold, fetched once at the commit
C10_Witness ==
    /\ last.outcome = "saved"
    /\ \E i \in 1..Len(LastFiles) :
          /\ LastFiles[i].status = "renamed"
          /\ StrLen(LastFiles[i].patch) > PatchThreshold
          /\ Len(FetchesOf(i)) = 1
          /\ FetchesOf(i)[1].side = "after" /\ FetchesOf(i)[1].ref = last.sha


(***************************************************************************)
(* The commit loop of github_webhook: what becomes of each listed commit.  *)
(***************************************************************************)
\* the commits of the last delivery were looped over and the event acknowledged
Acknowledged == hpc = "acked" /\ resp = 200 /\ done # <<>>
\* a request made to the remote host for the k-th listed commit went wrong
RequestFailed(k) == k <= Len(done) /\ done[k].failed
SavedAt(k) == k <= Len(done) /\ done[k].outcome = "saved"

Malformed(d) ==
    /\ d.signature = "ok" /\ d.json /\ d.event = "push"
    /\ \/ d.full_name = <<>>
       \/ \E k \in 1..Len(d.commits) : ~TruthySha(d.commits[k].id)

\* C12 (as claimed): a push notification missing the repository name or the
\* id of any listed commit is dropped as a whole: no record is written for
\* any of its commits, and it is acknowledged with success.
C12_MalformedDropped ==
    Malformed(delivery) =>
        /\ \A k \in 1..Len(done) : done[k].outcome # "saved"
        /\ hpc = "acked" => resp = 200

\* C13: the loop goes through the listed commits in list order, one at a
\* time: the commits gone through are a prefix of the list, those still to
\* do are the rest of it, and of two commits saved in one event the one
\* listed first was written first.
C13_InListOrder ==
    /\ \A k \in 1..Len(done) :
          /\ k <= Len(delivery.commits)
          /\ done[k].sha = delivery.commits[k].id
    /\ hpc = "loop" =>
          /\ Len(done) + Len(queue) = Len(delivery.commits)
          /\ \A k \in 1..Len(queue) : queue[k] = delivery.commits[Len(done) + k]
    /\ \A i, j \in 1..Len(done) :
          (i < j /\ done[i].outcome = "saved" /\ done[j].outcome = "saved")
              => done[i].at < done[j].at

\* an acknowledged push of two different commits, both saved, in list order
C13_Witness ==
    /\ Acknowledged
    /\ Len(delivery.commits) = 2 /\ Len(done) = 2
    /\ delivery.commits[1].id # delivery.commits[2].id
    /\ done[1].outcome = "saved" /\ done[2].outcome = "saved"
    /\ store[delivery.commits[1].id].timestamp < store[delivery.commits[2].id].timestamp

\* C16: in every stored FileDiff the pre-image content is absent when the
\* status is added and the post-image content is absent when the status is
\* removed, whatever the patch length and the outcome of the requests.
C16_AddedNoBeforeRemovedNoAfter ==
    \A s \in DOMAIN store : \A i \in 1..Len(store[s].files) :
        LET fd == store[s].files[i] IN
        /\ fd.status = "added" => GetBeforeCode(fd) = None
        /\ fd.status = "removed" => GetAfterCode(fd) = None

\* stored: an added file over the threshold with its post-image fetched, and
\* a removed file over the threshold
C16_Witness ==
    /\ \E s \in DOMAIN store : \E i \in 1..Len(store[s].files) :
          /\ store[s].files[i].status = "added"
          /\ StrLen(store[s].files[i].patch) > PatchThreshold
          /\ Truthy(GetAfterCode(store[s].files[i]))
          /\ GetBeforeCode(store[s].files[i]) = None
    /\ \E s \in DOMAIN store : \E i \in 1..Len(store[s].files) :
          /\ store[s].files[i].status = "removed"
          /\ StrLen(store[s].files[i].patch) > PatchThreshold
          /\ GetAfterCode(store[s].files[i]) = None


(***************************************************************************)
(* The classification step run twice on one commit.                        *)
(***************************************************************************)
\* longest change list a classified commit has here
MaxFiles == 3

TestsPy == <<"t", "e", "s", "t", "s", "/", "t", ".", "p", "y">>
ChangedFiles ==
    { UpFile(RequirementsTxt, "added", PatchOfLen(40)),
      UpFile(ReadmeMd, "modified", PatchOfLen(30)),
      UpFile(MainPy, "added", NewFilePatch),
      UpFile(TestsPy, "removed", PatchOfLen(10)) }

\* commits handed to the classification step: a change list, the stats the
\* host reports for it (or larger ones), a message
ClassifiedCommits ==
    { [files |-> in.fs, message |-> in.m,
       stats |-> [additions |-> TotalAdditions(in.fs) + in.a, deletions |-> 0]] :
        in \in [fs : SeqsUpTo(ChangedFiles, MaxFiles), a : {0, 301},
                m : { <<"F", "i", "x", " ", "t", "y", "p", "o">>, <<"w", "i", "p">> }] }

Orders(n) == { p \in [1..n -> 1..n] : \A i, j \in 1..n : p[i] = p[j] => i = j }

InitRerun ==
    /\ kin \in ClassifiedCommits
    /\ kout = <<>>
    /\ cin = NoInput /\ cout = NoEvent
    /\ store = <<>>
    /\ IngestIdle /\ WalkIdle /\ CompareIdle /\ EvolveIdle /\ FilesIdle

\* the classification step runs on the commit, meeting its files in the order p
RunClassification(p) ==
    /\ Len(kout) < 2
    /\ kout' = Append(kout, ClassifyCommit([i \in 1..Len(kin.files) |-> kin.files[p[i]]],
                                           kin.stats,
                                           kin.message))
    /\ UNCHANGED <<kin, cin, cout, ingestVars, walkVars, cmpVars, evoVars, fileVars>>

NextRerun == \E p \in Orders(Len(kin.files)) : RunClassification(p)

SpecRerun == InitRerun /\ [][NextRerun]_vars

Whitespace == {" ", "\t", "\n"}
IsInk(ch) == ch \notin Whitespace
\* ''.join(text.split())
Stripped(text) == SelectSeq(text, IsInk)

\* difflib.SequenceMatcher without junk: length of the block a[i..] = b[j..]
RECURSIVE CommonPrefix(_, _, _, _, _, _)
CommonPrefix(a, i, ahi, b, j, bhi) ==
    IF i > ahi \/ j > bhi THEN 0
    ELSE IF a[i] # b[j] THEN 0
    ELSE 1 + CommonPrefix(a, i + 1, ahi, b, j + 1, bhi)

\* find_longest_match(alo, ahi, blo, bhi): the longest block, of those the
\* one starting earliest in a, of those the one starting earliest in b
find_longest_match(a, alo, ahi, b, blo, bhi) ==
    LET cand == { [i |-> i, j |-> j, k |-> CommonPrefix(a, i, ahi, b, j, bhi)] :
                    i \in alo..ahi, j \in blo..bhi }
        found == { m \in cand : m.k > 0 }
    IN  IF found = {} THEN [i |-> alo, j |-> blo, k |-> 0]
        ELSE CHOOSE m \in found :
                \A n \in found :
                    \/ m.k > n.k
                    \/ m.k = n.k /\ m.i < n.i
                    \/ m.k = n.k /\ m.i = n.i /\ m.j <= n.j

\* get_matching_blocks: total size of the blocks found in a[alo..ahi], b[blo..bhi]
RECURSIVE MatchingSize(_, _, _, _, _, _)
MatchingSize(a, alo, ahi, b, blo, bhi) ==
    IF alo > ahi \/ blo > bhi THEN 0
    ELSE LET m == find_longest_match(a, alo, ahi, b, blo, bhi)
         IN  IF m.k = 0 THEN 0
             ELSE m.k + MatchingSize(a, alo, m.i - 1, b, blo, m.j - 1)
                      + MatchingSize(a, m.i + m.k, ahi, b, m.j + m.k, bhi)

\* SequenceMatcher(None, a, b).ratio() is 2.0 * matches / (len(a) + len(b)),
\* 1.0 for two empty strings; kept as the fraction num / den
Ratio(a, b) ==
    IF Len(a) + Len(b) = 0 THEN [num |-> 1, den |-> 1]
    ELSE [num |-> 2 * MatchingSize(a, 1, Len(a), b, 1, Len(b)), den |-> Len(a) + Len(b)]
\* r > p / q and r < p / q
Above(r, p, q) == r.num * q > p * r.den
Below(r, p, q) == r.num * q < p * r.den

\* analyze_code_similarity with formatting_only tested before minor_changes
analyze_code_similarity_formatting_first(file_diff) ==
    IF file_diff.status = "added" THEN "new_file"
    ELSE IF file_diff.status = "removed" THEN "deleted_file"
    ELSE IF file_diff.before_code # <<>> /\ file_diff.after_code # <<>>
    THEN LET similarity == Ratio(file_diff.before_code, file_diff.after_code)
             logic_similarity == Ratio(Stripped(file_diff.before_code),
                                       Stripped(file_diff.after_code))
         IN  IF Above(logic_similarity, 95, 100) /\ Below(similarity, 95, 100)
                THEN "formatting_only"
             ELSE IF Above(logic_similarity, 95, 100) THEN "formatting_only"
             ELSE IF Above(similarity, 95, 100) THEN "minor_changes"
             ELSE IF Above(logic_similarity, 80, 100) THEN "refactoring"
             ELSE "major_rewrite"
    ELSE IF file_diff.patch_size < 200 THEN "small_change"
    ELSE IF file_diff.additions > file_diff.deletions * 2 THEN "expansion"
    ELSE IF file_diff.deletions > file_diff.additions * 2 THEN "reduction"
    ELSE "modification"

\* analyze_code_similarity(file_diff): the 'type' of the dictionary returned
analyze_code_similarity(file_diff) ==
    IF file_diff.status = "added" THEN "new_file"
    ELSE IF file_diff.status = "removed" THEN "deleted_file"
    ELSE IF file_diff.before_code # <<>> /\ file_diff.after_code # <<>>
    THEN LET similarity == Ratio(file_diff.before_code, file_diff.after_code)
             logic_similarity == Ratio(Stripped(file_diff.before_code),
                                       Stripped(file_diff.after_code))
         IN  IF Above(similarity, 95, 100) THEN "minor_changes"
             ELSE IF Above(logic_similarity, 95, 100) /\ Below(similarity, 95, 100)
                THEN "formatting_only"
             ELSE IF Above(logic_similarity, 80, 100) THEN "refactoring"
             ELSE "major_rewrite"
    ELSE IF file_diff.patch_size < 200 THEN "small_change"
    ELSE IF file_diff.additions > file_diff.deletions * 2 THEN "expansion"
    ELSE IF file_diff.deletions > file_diff.additions * 2 THEN "reduction"
    ELSE "modification"

RECURSIVE SumFilesChanged(_)
SumFilesChanged(commits) ==
    IF commits = <<>> THEN 0
    ELSE Head(commits).event.files_changed + SumFilesChanged(Tail(commits))

\* detect_development_pattern with the average compared against 2
detect_development_pattern_low_average(commits) ==
    IF commits = <<>> THEN "no_commits"
    ELSE LET total_files == SumFilesChanged(commits)
             first_commit_files == commits[1].event.files_changed
             first_commit_ratio == IF total_files > 0
                                   THEN [num |-> first_commit_files, den |-> total_files]
                                   ELSE [num |-> 0, den |-> 1]
         IN  IF Above(first_commit_ratio, 7, 10) THEN "bulk_upload"
             ELSE IF total_files < 2 * Len(commits) THEN "gradual_development"
             ELSE "mixed_development"

\* detect_development_pattern(commits): the 'pattern' of the dictionary
\* returned; avg_files_per_commit < 5 is total_files < 5 * len(commits)
detect_development_pattern(commits) ==
    IF commits = <<>> THEN "no_commits"
    ELSE LET total_files == SumFilesChanged(commits)
             first_commit_files == commits[1].event.files_changed
             first_commit_ratio == IF total_files > 0
                                   THEN [num |-> first_commit_files, den |-> total_files]
                                   ELSE [num |-> 0, den |-> 1]
         IN  IF Above(first_commit_ratio, 7, 10) THEN "bulk_upload"
             ELSE IF total_files < 5 * Len(commits) THEN "gradual_development"
             ELSE "mixed_development"

(***************************************************************************)
(* Calls made on the evolution analyzer.                                   *)
(***************************************************************************)
\* longest history handed to detect_development_pattern, and the number of
\* different files its commits choose from
MaxCommits == 3
MaxTouched == 3

Letters == <<"a", "b", "c", "d", "e", "f", "g", "h", "i", "j",
             "k", "l", "m", "n", "o", "p", "q", "r", "s">>
FileName(i) == <<Letters[i]>>
\* a stored commit touching the files numbered in `touched`, as ingestion
\* writes it: one FileDiff per file, files_changed their number
RECURSIVE FileDiffsOf(_)
FileDiffsOf(touched) ==
    IF touched = {} THEN <<>>
    ELSE LET i == CHOOSE x \in touched : \A y \in touched : x <= y
         IN  << [filename |-> FileName(i), status |-> "modified"] >>
                \o FileDiffsOf(touched \ {i})
HistoryCommit(touched) ==
    [event |-> [files_changed |-> Cardinality(touched)], files |-> FileDiffsOf(touched)]

Histories ==
    { [k \in 1..Len(h) |-> HistoryCommit(h[k])] :
        h \in SeqsUpTo(SUBSET (1..MaxTouched), MaxCommits)
              \cup { << 1..8, 9..10 >>, << 1..8, 1..4 >>, << 1..8, 1..8 >>, << 1..7, 8..10 >> } }

\* content compared by analyze_code_similarity: a word, and the same word
\* with one whitespace character put in
Word(n) == SubSeq(Letters, 1, n)
WordLengths == {1, 10, 19}
Spaced(w) ==
    { w, <<" ">> \o w, w \o <<" ">>, w \o <<"\n">>,
      SubSeq(w, 1, 1) \o <<" ">> \o SubSeq(w, 2, Len(w)) }
Contents ==
    UNION { Spaced(Word(n)) : n \in WordLengths }
        \cup { <<>>, <<" ">>, <<" ", " ">>, <<"z", "z">>,
               <<"j", "i", "h", "g", "f", "e", "d", "c", "b", "a">>,
               <<"a", "b", "c", "d", "e", "f", "g", "h", "z", "z">> }

SimilarityInputs ==
    [status : {"modified"}, before_code : Contents, after_code : Contents,
     patch_size : {0}, additions : {1}, deletions : {0}]
    \cup [status : {"added", "removed", "renamed"}, before_code : {<<>>, Word(1)},
          after_code : {<<>>, Word(1)}, patch_size : {199, 200}, additions : {1, 5},
          deletions : {0, 2, 11}]

EvolveCalls ==
    { [op |-> "detect_development_pattern", commits |-> h] : h \in Histories }
        \cup { [op |-> "analyze_code_similarity", file_diff |-> fd] : fd \in SimilarityInputs }

InitEvolve ==
    /\ ein \in EvolveCalls
    /\ eout = NoCall
    /\ store = <<>>
    /\ IngestIdle /\ WalkIdle /\ ClassifyIdle /\ CompareIdle /\ FilesIdle

DetectPattern ==
    /\ ein.op = "detect_development_pattern" /\ eout = NoCall
    /\ eout' = [op |-> ein.op, pattern |-> detect_development_pattern(ein.commits)]
    /\ UNCHANGED <<ein, ingestVars, walkVars, classVars, cmpVars, fileVars>>

AnalyzeSimilarity ==
    /\ ein.op = "analyze_code_similarity" /\ eout = NoCall
    /\ eout' = [op |-> ein.op, type |-> analyze_code_similarity(ein.file_diff)]
    /\ UNCHANGED <<ein, ingestVars, walkVars, classVars, cmpVars, fileVars>>

NextEvolve == DetectPattern \/ AnalyzeSimilarity

SpecEvolve == InitEvolve /\ [][NextEvolve]_vars

\* the files a history touches, and those its first commit touches
TouchedBy(commit) == { commit.files[i].filename : i \in 1..Len(commit.files) }
TouchedIn(commits) == UNION { TouchedBy(commits[k]) : k \in 1..Len(commits) }
PatternReturned == eout # NoCall /\ eout.op = "detect_development_pattern"

\* C18 (as claimed): for a non-empty history in which the files the first
\* commit touches are more than 70% of the distinct files touched across the
\* history, detect_development_pattern returns bulk_upload.
C18_BulkUploadByDistinctFiles ==
    (/\ PatternReturned
     /\ ein.commits # <<>>
     /\ 10 * Cardinality(TouchedBy(ein.commits[1])) > 7 * Cardinality(TouchedIn(ein.commits)))
        => eout.pattern = "bulk_upload"

\* C19 (as claimed): for a non-empty history whose average files-changed per
\* commit is below 5, detect_development_pattern returns gradual_development.
C19_LowAverageIsGradual ==
    (/\ PatternReturned
     /\ ein.commits # <<>>
     /\ SumFilesChanged(ein.commits) < 5 * Len(ein.commits))
        => eout.pattern = "gradual_development"

\* C19 (amended): for a non-empty history whose average files-changed per
\* commit is below 5 and which the first-commit test does not make a
\* bulk_upload, detect_development_pattern returns gradual_development.
C19_LowAverageNotBulkIsGradual ==
    (/\ PatternReturned
     /\ ein.commits # <<>>
     /\ SumFilesChanged(ein.commits) < 5 * Len(ein.commits)
     /\ eout.pattern # "bulk_upload")
        => eout.pattern = "gradual_development"

\* a history of two commits of two files each: average 2, gradual_development
C19_Witness ==
    /\ PatternReturned
    /\ Len(ein.commits) = 2
    /\ SumFilesChanged(ein.commits) = 2 * Len(ein.commits)
    /\ eout.pattern = "gradual_development"

SimilarityReturned == eout # NoCall /\ eout.op = "analyze_code_similarity"
\* the stored contents differ, and are equal once whitespace is removed
WhitespaceOnly(fd) ==
    /\ fd.before_code # fd.after_code
    /\ Stripped(fd.before_code) = Stripped(fd.after_code)

\* C20 (as claimed): for a modified file whose stored before and after
\* content differ only in whitespace, analyze_code_similarity returns
\* formatting_only, whatever the character-level similarity ratio is.
C20_WhitespaceIsFormatting ==
    (/\ SimilarityReturned
     /\ ein.file_diff.status = "modified"
     /\ WhitespaceOnly(ein.file_diff))
        => eout.type = "formatting_only"

\* C20 (amended): for a modified file whose stored before and after content
\* are both non-empty and differ only in whitespace, analyze_code_similarity
\* returns formatting_only when the character-level similarity ratio is below
\* 0.95, minor_changes when it is above 0.95 and refactoring when it is 0.95.
C20_WhitespaceByRatio ==
    (/\ SimilarityReturned
     /\ ein.file_diff.status = "modified"
     /\ WhitespaceOnly(ein.file_diff)
     /\ ein.file_diff.before_code # <<>> /\ ein.file_diff.after_code # <<>>)
        => LET similarity == Ratio(ein.file_diff.before_code, ein.file_diff.after_code)
           IN  /\ Below(similarity, 95, 100) => eout.type = "formatting_only"
               /\ Above(similarity, 95, 100) => eout.type = "minor_changes"
               /\ (~Below(similarity, 95, 100) /\ ~Above(similarity, 95, 100))
                     => eout.type = "refactoring"

\* ten letters against the same ten letters with one space put in: the
\* ratio is 20/21, above 0.95, and the type is minor_changes
C20_Witness ==
    /\ SimilarityReturned
    /\ ein.file_diff.status = "modified"
    /\ WhitespaceOnly(ein.file_diff)
    /\ Len(ein.file_diff.before_code) = 10 /\ Len(ein.file_diff.after_code) = 11
    /\ Ratio(ein.file_diff.before_code, ein.file_diff.after_code) = [num |-> 20, den |-> 21]
    /\ eout.type = "minor_changes"


(***************************************************************************)
(* The data directory under concurrent requests: save_commit_history and   *)
(* the loaders of app.py, file_constructor.py and evolution_analyzer.py,   *)
(* each running in a thread or process of its own.                         *)
(***************************************************************************)
\* number of write calls by which Path.write_text puts one record on disk
Pieces == 2

OwnerA == <<"a">>
OwnerAB == <<"a", "_", "b">>
RepoB == <<"b">>
RepoC == <<"c">>
RepoBC == <<"b", "_", "c">>
\* (owner, repository name) pairs that requests name
RepoPairs == { <<OwnerAB, RepoC>>, <<OwnerA, RepoBC>>, <<OwnerA, RepoB>> }
\* commit ids written and asked for
FileShas == {"c1", "c2"}

\* f"{owner}_{repo_name}"
RepoDirName(owner, repo_name) == owner \o <<"_">> \o repo_name

\* get_repo_dir: the data directory after mkdir(exist_ok=True)
get_repo_dir(d, owner, repo_name) ==
    IF RepoDirName(owner, repo_name) \in DOMAIN d THEN d
    ELSE (RepoDirName(owner, repo_name) :> <<>>) @@ d

\* a file holds the first `written` of the Pieces pieces of the JSON text of
\* `data`; json.loads accepts the text only when all of it is there
Parses(file) == file.written = Pieces

\* sorted(repo_dir.glob('*.json'), key=st_mtime, reverse=True)
ByMtimeDesc(files) ==
    CHOOSE q \in [1..Cardinality(DOMAIN files) -> DOMAIN files] :
        /\ \A i, j \in DOMAIN q : i # j => q[i] # q[j]
        /\ \A i, j \in DOMAIN q : i < j => files[q[i]].mtime >= files[q[j]].mtime

\* the orders in which repo_dir.glob('*.json') may yield the files
GlobOrders(files) ==
    { q \in [1..Cardinality(DOMAIN files) -> DOMAIN files] :
        \A i, j \in DOMAIN q : i # j => q[i] # q[j] }

\* commits.sort(key=lambda x: x['timestamp']): a stable sort
RECURSIVE SortByTimestamp(_)
SortByTimestamp(commits) ==
    IF commits = <<>> THEN <<>>
    ELSE LET c == commits[Len(commits)]
             front == SortByTimestamp(SubSeq(commits, 1, Len(commits) - 1))
             keep == Cardinality({i \in 1..Len(front) : front[i].timestamp <= c.timestamp})
         IN  SubSeq(front, 1, keep) \o <<c>> \o SubSeq(front, keep + 1, Len(front))

\* save_commit_history, lines 42-45 up to open(commit_file, 'w'): the
\* directory is there and the file exists, empty
SaveStart(owner, repo_name, sha) ==
    /\ writer.pc = "idle"
    /\ now < MaxSaves
    /\ LET dir == RepoDirName(owner, repo_name)
           commit_data == [SyntheticRecord(sha, NoSha, "none") EXCEPT !.timestamp = now + 1]
       IN  /\ disk' = [get_repo_dir(disk, owner, repo_name) EXCEPT
                         ![dir] = (sha :> [data |-> commit_data, written |-> 0,
                                           mtime |-> now + 1]) @@ @]
           /\ writer' = [pc |-> "writing", dir |-> dir, sha |-> sha]
           /\ saves' = saves \cup {[owner |-> owner, repo_name |-> repo_name,
                                    data |-> commit_data]}
    /\ now' = now + 1
    /\ UNCHANGED <<store, repos, upstream, hpc, queue, last, resp, seen, delivery, done,
                   walkVars, classVars, cmpVars, evoVars, reader, submits>>

\* Path.write_text, line 45: one more piece of the text reaches the file; the
\* file is closed after the last
WritePiece ==
    /\ writer.pc = "writing"
    /\ disk' = [disk EXCEPT ![writer.dir][writer.sha].written = @ + 1]
    /\ writer' = IF disk[writer.dir][writer.sha].written + 1 = Pieces THEN NoWrite
                 ELSE writer
    /\ UNCHANGED <<ingestVars, walkVars, classVars, cmpVars, evoVars, saves, reader, submits>>

Reading(op, owner, repo_name, pending) ==
    [pc |-> "reading", op |-> op, owner |-> owner, repo_name |-> repo_name,
     pending |-> pending, got |-> <<>>]

\* load_commit_history, lines 48-50: the directory is listed, newest file first
LoadCommitHistory(owner, repo_name) ==
    /\ reader.pc = "idle"
    /\ disk' = get_repo_dir(disk, owner, repo_name)
    /\ reader' = Reading("load_commit_history", owner, repo_name,
                         ByMtimeDesc(disk'[RepoDirName(owner, repo_name)]))
    /\ UNCHANGED <<ingestVars, walkVars, classVars, cmpVars, evoVars, writer, saves, submits>>

\* load_repo_commits, lines 17-22: nothing to load without the directory,
\* else the directory is listed
LoadRepoCommits(owner, repo_name) ==
    /\ reader.pc = "idle"
    /\ IF RepoDirName(owner, repo_name) \notin DOMAIN disk
       THEN reader' = [Reading("load_repo_commits", owner, repo_name, <<>>)
                          EXCEPT !.pc = "done"]
       ELSE \E q \in GlobOrders(disk[RepoDirName(owner, repo_name)]) :
                reader' = Reading("load_repo_commits", owner, repo_name, q)
    /\ UNCHANGED <<ingestVars, walkVars, classVars, cmpVars, evoVars, disk, writer, saves,
                   submits>>

\* load_commit, lines 16-20: None without the file
LoadCommit(owner, repo_name, sha) ==
    /\ reader.pc = "idle"
    /\ IF \/ RepoDirName(owner, repo_name) \notin DOMAIN disk
          \/ sha \notin DOMAIN disk[RepoDirName(owner, repo_name)]
       THEN reader' = [Reading("load_commit", owner, repo_name, <<>>) EXCEPT !.pc = "done"]
       ELSE reader' = Reading("load_commit", owner, repo_name, <<sha>>)
    /\ UNCHANGED <<ingestVars, walkVars, classVars, cmpVars, evoVars, disk, writer, saves,
                   submits>>

\* json.loads(commit_file.read_text()) on the next file (app.py line 51,
\* evolution_analyzer.py lines 23-24, file_constructor.py line 22): the record,
\* or JSONDecodeError out of the loader
ReadFile ==
    /\ reader.pc = "reading" /\ reader.pending # <<>>
    /\ LET file == disk[RepoDirName(reader.owner, reader.repo_name)][Head(reader.pending)]
       IN  reader' = IF Parses(file)
                     THEN [reader EXCEPT !.got = Append(@, file.data), !.pending = Tail(@)]
                     ELSE [reader EXCEPT !.pc = "raised"]
    /\ UNCHANGED <<ingestVars, walkVars, classVars, cmpVars, evoVars, disk, writer, saves,
                   submits>>

\* every listed file is read: the loader returns (evolution_analyzer.py lines
\* 26-28 sort by timestamp first)
LoadReturn ==
    /\ reader.pc = "reading" /\ reader.pending = <<>>
    /\ reader' = [reader EXCEPT !.pc = "done",
                                !.got = IF reader.op = "load_repo_commits"
                                        THEN SortByTimestamp(@) ELSE @]
    /\ UNCHANGED <<ingestVars, walkVars, classVars, cmpVars, evoVars, disk, writer, saves,
                   submits>>

\* the caller is done with what the loader gave it
LoadForget ==
    /\ reader.pc \in {"done", "raised"}
    /\ reader' = NoRead
    /\ UNCHANGED <<ingestVars, walkVars, classVars, cmpVars, evoVars, disk, writer, saves,
                   submits>>

InitFiles ==
    /\ store = <<>>
    /\ IngestIdle /\ WalkIdle /\ ClassifyIdle /\ CompareIdle /\ EvolveIdle /\ FilesIdle

NextFiles ==
    \/ \E pr \in RepoPairs, sha \in FileShas : SaveStart(pr[1], pr[2], sha)
    \/ WritePiece
    \/ \E pr \in RepoPairs : LoadCommitHistory(pr[1], pr[2])
    \/ \E pr \in RepoPairs : LoadRepoCommits(pr[1], pr[2])
    \/ \E pr \in RepoPairs, sha \in FileShas : LoadCommit(pr[1], pr[2], sha)
    \/ ReadFile
    \/ LoadReturn
    \/ LoadForget

SpecFiles == InitFiles /\ [][NextFiles]_vars

\* the loaders that enumerate a repository's records
Enumerations == {"load_commit_history", "load_repo_commits"}

\* C21 (as claimed): a reader enumerating the records of a repository while
\* a record is being written to that repository does not fail, and every
\* record it has read is a record that was saved, whole.
C21_ReadersSeeWholeRecords ==
    ( /\ reader.pc # "idle" /\ reader.op \in Enumerations
      /\ writer.pc = "writing"
      /\ writer.dir = RepoDirName(reader.owner, reader.repo_name) )
    => /\ reader.pc # "raised"
       /\ \A i \in 1..Len(reader.got) : \E s \in saves : s.data = reader.got[i]


(***************************************************************************)
(* The classification step run on commits that change a dependency         *)
(* manifest.                                                               *)
(***************************************************************************)
\* a changed file named exactly as an entry of dependency_files
ManifestFiles ==
    { UpFile(name, status, PatchOfLen(40)) :
        name \in dependency_files, status \in {"added", "modified"} }

\* commits whose change list starts with a manifest, alone or with another file
ManifestCommits ==
    { [files |-> <<in.f>> \o in.others, message |-> in.m,
       stats |-> [additions |-> TotalAdditions(<<in.f>> \o in.others) + in.a,
                  deletions |-> 0]] :
        in \in [f : ManifestFiles, others : SeqsUpTo(ChangedFiles, 1), a : {0, 301},
                m : { <<"F", "i", "x", " ", "t", "y", "p", "o">>, <<"w", "i", "p">> }] }

InitManifest ==
    /\ kin \in ManifestCommits
    /\ kout = <<>>
    /\ cin = NoInput /\ cout = NoEvent
    /\ store = <<>>
    /\ IngestIdle /\ WalkIdle /\ CompareIdle /\ EvolveIdle /\ FilesIdle

NextManifest == \E p \in Orders(Len(kin.files)) : RunClassification(p)

SpecManifest == InitManifest /\ [][NextManifest]_vars

\* C22 (as claimed): a commit whose change list holds a file named exactly as
\* one of the known dependency manifests is classified dependency_update,
\* whatever its other files, stats and message.
C22_ManifestIsDependencyUpdate ==
    \A k \in 1..Len(kout) :
        (\E i \in 1..Len(kin.files) : kin.files[i].filename \in dependency_files)
            => kout[k].type = "dependency_update"


(***************************************************************************)
(* Added files rebuilt from their patch (file_constructor.py lines 58-61   *)
(* and 81-89).                                                             *)
(***************************************************************************)
\* longest new file, in lines
MaxLines == 3

\* lines a source file may hold
SourceLines ==
    { Line(<<"a">>, 0), Line(<<>>, 0), Line(<<"+">>, 0), Line(<<"+", "+", "i">>, 0),
      Line(<<"-", "x">>, 0), Line(<<" ", "b">>, 0) }
SourceTexts == { t \in SeqsUpTo(SourceLines, MaxLines) : t # <<>> }

HunkHeader == Line(<<"@", "@", " ", "-", "0", ",", "0", " ", "+", "1", " ", "@", "@">>, 0)
\* the patch of a new file: the hunk header, then every line behind a '+'
AdditionPatch(content) ==
    <<HunkHeader>> \o
    [i \in 1..Len(content) |-> Line(<<"+">> \o content[i].text, content[i].pad)]

\* stores whose one record adds src/main.py by such a patch
PatchStores ==
    { ("c1" :> [SyntheticRecord("c1", NoSha, "none") EXCEPT
                  !.files = << StoredDiff(MainPy, "added", AdditionPatch(t), None,
                                          "patch_new") >>]) :
        t \in SourceTexts }

InitPatch ==
    /\ store \in PatchStores
    /\ IngestIdle /\ WalkIdle /\ ClassifyIdle /\ CompareIdle /\ EvolveIdle /\ FilesIdle

NextPatch ==
    \/ GetFileStart("c1", MainPy)
    \/ GetFileCall
    \/ GetFileReturn

SpecPatch == InitPatch /\ [][NextPatch]_vars

\* the lines a pure-addition patch was made from: each line after the header,
\* without its first character
ContentOf(patch) == [i \in 1..(Len(patch) - 1) |-> DropFirst(patch[i + 1])]

\* C23 (as claimed): the content extracted from the pure-addition patch of a
\* sequence of lines is exactly those lines, in order, none dropped or
\* altered.
C23_NewFilePatchRoundTrip ==
    wpc = "done" => wret = Join(ContentOf(store["c1"].files[1].patch))


(***************************************************************************)
(* The stored commits in the order the evolution analyzer replays them.    *)
(***************************************************************************)
\* load_repo_commits on the directory `st`, glob yielding the files in `order`
load_repo_commits(st, order) ==
    SortByTimestamp([i \in 1..Len(order) |-> st[order[i]]])

\* C24 (as claimed): after any sequence of push deliveries, in the
\* timestamp-sorted sequence of stored commits every commit whose parent is
\* stored too comes after its parent.
C24_ParentBeforeChild ==
    \A order \in GlobOrders(store) :
        LET commits == load_repo_commits(store, order)
        IN  \A i, j \in 1..Len(commits) :
                commits[j].parent_sha = commits[i].commit_sha => i < j


(***************************************************************************)
(* Repositories sharing the data directory.                                *)
(***************************************************************************)
\* the save made last for the repository and commit id of the save `s`
LatestSave(s) ==
    \A t \in saves :
        ( /\ t.owner = s.owner /\ t.repo_name = s.repo_name
          /\ t.data.commit_sha = s.data.commit_sha )
        => t.data.timestamp <= s.data.timestamp

\* C25 (as claimed): every record a loader has read for an (owner,
\* repository name) pair was saved for that pair, and the file of a commit id
\* in a repository holds what was saved last for that repository and commit
\* id, whatever was saved for other repositories.
C25_RepositoriesApart ==
    /\ reader.pc # "idle" =>
          \A i \in 1..Len(reader.got) :
              [owner |-> reader.owner, repo_name |-> reader.repo_name,
               data |-> reader.got[i]] \in saves
    /\ \A s \in saves :
          LatestSave(s) =>
              disk[RepoDirName(s.owner, s.repo_name)][s.data.commit_sha].data = s.data


(***************************************************************************)
(* Comparison at a commit that does not touch the file.                    *)
(***************************************************************************)
\* C26: a comparison that returns for a stored commit whose record has no
\* FileDiff for the file has `before` equal to `after`: both the content
\* resolved at the parent, or both absent when the commit has no parent.
C26_UnlistedFileSameBothSides ==
    ( /\ cpc = "done" /\ cres # NotFound
      /\ ~ListsFile(store, cres.commit_sha, cres.filename) )
    => /\ cres.before = cres.after
       /\ cres.after = IF TruthySha(cres.parent_sha)
                       THEN Resolve(store, cres.parent_sha, cres.filename, StackLimit)
                       ELSE None

\* a comparison at a commit without a FileDiff for the file, whose stored
\* parent holds the file in full: both sides are the parent's content
C26_Witness ==
    /\ cpc = "done" /\ cres # NotFound
    /\ ~ListsFile(store, cres.commit_sha, cres.filename)
    /\ TruthySha(cres.parent_sha) /\ ListsFile(store, cres.parent_sha, cres.filename)
    /\ cres.after = ContentAt(cres.parent_sha)
    /\ cres.before = cres.after
    /\ cres.status = "modified"


(***************************************************************************)
(* submit_repo requests served at the same time (app.py lines 58-87).      *)
(***************************************************************************)
\* number of submit-repo requests
MaxRequests == 2
Requests == 1..MaxRequests

\* f"{owner}/{repo_name}"
RepoKey(owner, repo_name) == owner \o <<"/">> \o repo_name

\* lines 60-65: a request arrives and the URL is taken apart
SubmitStart(r, owner, repo_name) ==
    /\ r \notin DOMAIN submits
    /\ submits' = (r :> [pc |-> "load", owner |-> owner, repo_name |-> repo_name,
                         repos |-> {}, message |-> ""]) @@ submits
    /\ UNCHANGED <<ingestVars, walkVars, classVars, cmpVars, evoVars,
                   disk, writer, saves, reader>>

\* lines 67-71: the registry is loaded; a key already in it ends the request
SubmitLoad(r) ==
    /\ r \in DOMAIN submits /\ submits[r].pc = "load"
    /\ submits' = [submits EXCEPT
                     ![r] = IF RepoKey(@.owner, @.repo_name) \in repos
                            THEN [@ EXCEPT !.pc = "done", !.repos = repos,
                                           !.message = "Repository already added"]
                            ELSE [@ EXCEPT !.pc = "save", !.repos = repos]]
    /\ UNCHANGED <<ingestVars, walkVars, classVars, cmpVars, evoVars,
                   disk, writer, saves, reader>>

\* lines 73-87: the hook is created, the key is added to the registry as the
\* request loaded it, and that registry is written back
SubmitSave(r) ==
    /\ r \in DOMAIN submits /\ submits[r].pc = "save"
    /\ LET req == submits[r]
           mine == req.repos \cup {RepoKey(req.owner, req.repo_name)}
       IN  /\ repos' = mine
           /\ disk' = get_repo_dir(disk, req.owner, req.repo_name)
           /\ submits' = [submits EXCEPT
                            ![r] = [@ EXCEPT !.pc = "done", !.repos = mine,
                                             !.message = "Repository added with webhook"]]
    /\ UNCHANGED <<store, upstream, now, hpc, queue, last, resp, seen, delivery, done,
                   walkVars, classVars, cmpVars, evoVars, writer, saves, reader>>

InitSubmit ==
    /\ store = <<>>
    /\ IngestIdle /\ WalkIdle /\ ClassifyIdle /\ CompareIdle /\ EvolveIdle /\ FilesIdle

NextSubmit ==
    \/ \E r \in Requests, pr \in RepoPairs : SubmitStart(r, pr[1], pr[2])
    \/ \E r \in Requests : SubmitLoad(r)
    \/ \E r \in Requests : SubmitSave(r)

SpecSubmit == InitSubmit /\ [][NextSubmit]_vars

\* C27 (as claimed): once two submit-repo requests for different
\* repositories have both completed, the registry holds both keys, which is
\* what github_webhook looks up before it ingests a push (lines 127-132).
C27_BothRegistered ==
    \A r1, r2 \in DOMAIN submits :
        ( /\ r1 # r2
          /\ submits[r1].pc = "done" /\ submits[r2].pc = "done"
          /\ RepoKey(submits[r1].owner, submits[r1].repo_name)
                # RepoKey(submits[r2].owner, submits[r2].repo_name) )
        => /\ RepoKey(submits[r1].owner, submits[r1].repo_name) \in repos
           /\ RepoKey(submits[r2].owner, submits[r2].repo_name) \in repos

====
